---- MODULE Spec2Model ----
(***************************************************************************)
(* PID-gated sync and reconciliation pipeline of phd-practice.             *)
(*                                                                         *)
(* Spec          the script orchestrator src/sync_parent_pids.py: main(),  *)
(*               analyze_parent_records() and the remote script that       *)
(*               sync_to_database() ships to the database host.  Runs are  *)
(*               executed one after the other by a single operator.        *)
(* SpecService   GraphQLSyncService.bulk_sync_from_graphql_response under  *)
(*               requests served at the same time.                         *)
(* SpecResync    the same service, its requests served one after the       *)
(*               other, the request remembered.                            *)
(* SpecReport    the read-only operations of the service: the parse of a   *)
(*               response and the validation report.                       *)
(* SpecQuick     the script src/quick_sync_pids.py run against a table     *)
(*               that sync_parent_pids.py filled.                          *)
(* SpecClassify  the eligibility classifiers of the scripts and services,  *)
(*               each applied to one media item.                           *)
(* SpecS3        S3SyncService.list_training_assets_in_bucket on a bucket  *)
(*               and a documents table that do not change.                 *)
(* SpecS3Runs    listings of one S3SyncService between which requests to   *)
(*               /sync/graphql persist new pids.                           *)
(* SpecTrigger   the routes /authorities/scheduled and /authorities/manual *)
(*               with their background tasks.                              *)
(* SpecRace      two operators who run the remote script of                *)
(*               sync_parent_pids.py at the same time.                     *)
(* SpecPdf       S3SyncService.process_pdf, one call after the other.      *)
(* SpecAuth      sync_all_authorities and sync_authority.                  *)
(* SpecChunk     DoclingProcessor.chunk_text.                              *)
(***************************************************************************)
EXTENDS Integers, Sequences, FiniteSets, TLC

(***************************************************************************)
(* Bounds of the model.                                                    *)
(***************************************************************************)
MaxBatch == 2       \* longest records_v1 list a fetch returns
MaxRuns == 2        \* script runs executed one after the other
NumCallers == 2     \* /sync/graphql requests that may be in flight together
MaxItems == 2       \* longest all_media_items list of a request
MaxFiles == 2       \* most pdf_files of a classified media item
MaxAssets == 2      \* most digital_assets of a classified media item
MaxRequests == 2    \* /sync/graphql requests served one after the other
MaxListings == 2    \* listings of the bucket by one S3SyncService
MaxObjects == 2     \* most objects the bucket holds at a listing
MaxTriggers == 3    \* requests to the sync triggers
NumOperators == 2   \* operators who run sync_parent_pids.py at the same time
MaxCalls == 2       \* calls of process_pdf
MaxChunks == 2      \* most chunks of an extracted text
MaxAuthItems == 2   \* most items an authority query returns
MaxText == 4        \* longest text given to chunk_text
MaxChunkSize == 3   \* largest chunk_size and overlap given to chunk_text
MaxIterations == 5  \* iterations of the loop of chunk_text that are followed

(***************************************************************************)
(* Values.  A missing / null / empty pid is the empty string: the code     *)
(* tests it with "if not pid".  A date string is the sequence of its       *)
(* leading digits; the empty sequence is a missing or null date.           *)
(***************************************************************************)
NoPid == ""
NoDate == << >>
None == [kind |-> "none"]

DefaultYear == 1970

File(role, filename) == [role |-> role, filename |-> filename]
Asset(filename, flag) == [filename |-> filename, use_for_ml |-> flag]
Media(pdfs, assets) == [pdf_files |-> pdfs, digital_assets |-> assets]
Record(pid, title, date, media) ==
    [pid |-> pid, title |-> title, project_start_date |-> date,
     attached_media |-> media]

(***************************************************************************)
(* The records the remote archive can return to the script, a bounded      *)
(* sample of the shape PARENT_RECORDS_QUERY asks for: an approved master   *)
(* PDF, a record without media, another revision of the first record whose *)
(* only PDF is a browser copy of an unapproved asset, a record without     *)
(* pid.                                                                    *)
(***************************************************************************)
ArchiveRecords ==
    { Record("p1", "T1", <<1, 9, 7, 2>>,
             << Media(<< File("pdf_master", "a.pdf") >>,
                      << Asset("a.pdf", TRUE) >>) >>),
      Record("p2", "T2", NoDate, << >>),
      Record("p1", "T1b", <<1, 9, 6>>,
             << Media(<< File("pdf_browser", "a_web.pdf") >>,
                      << Asset("a.pdf", FALSE) >>) >>),
      Record(NoPid, "T0", NoDate, << >>) }

RECURSIVE SeqsUpTo(_, _)
SeqsUpTo(S, n) ==
    IF n = 0 THEN { << >> }
    ELSE LET shorter == SeqsUpTo(S, n - 1)
         IN  shorter \cup { Append(s, x) : s \in shorter, x \in S }

\* The lists of at most n entries of S the archive can answer with.  A pid is
\* minted once by the archive, so one answer never lists two entries of the
\* same pid.
Batches(S, n) ==
    { b \in SeqsUpTo(S, n) :
        \A i, j \in DOMAIN b : i # j => b[i].pid # b[j].pid }

\* What fetch_graphql_records() can return: None on any transport failure,
\* else the decoded JSON, which carries 'data' or only 'errors'.
Responses ==
    { None, [kind |-> "errors"] }
        \cup { [kind |-> "data", records_v1 |-> b] :
                   b \in Batches(ArchiveRecords, MaxBatch) }

(***************************************************************************)
(* analyze_parent_records                                                  *)
(***************************************************************************)
AnyUseForMl(assets) == \E i \in DOMAIN assets : assets[i].use_for_ml

\* has_pdf and use_for_ml of one attached media item
ParentMediaCounts(media) ==
    Len(media.pdf_files) > 0 /\ AnyUseForMl(media.digital_assets)

ParentPdfCount(record) ==
    Cardinality({ i \in DOMAIN record.attached_media :
                      ParentMediaCounts(record.attached_media[i]) })

\* int(year_str[:4]) if year_str and len(year_str) >= 4 else 1970
ParseYear(d) ==
    IF Len(d) >= 4
    THEN d[1] * 1000 + d[2] * 100 + d[3] * 10 + d[4]
    ELSE DefaultYear

ParentRecord(record, now) ==
    [pid |-> record.pid,
     title |-> record.title,
     year |-> ParseYear(record.project_start_date),
     pdf_count |-> ParentPdfCount(record),
     tiff_count |-> 0,
     metadata |-> [pdf_count |-> ParentPdfCount(record),
                   tiff_count |-> 0,
                   media_count |-> Len(record.attached_media),
                   synced_from |-> "ddr_graphql",
                   synced_at |-> now]]

analyze_parent_records(d, now) ==
    IF d.kind # "data" THEN << >>
    ELSE LET kept == SelectSeq(d.records_v1, LAMBDA r : r.pid # NoPid)
         IN  [i \in 1 .. Len(kept) |-> ParentRecord(kept[i], now)]

(***************************************************************************)
(* The documents and sync_log tables.  A table is the sequence of its rows *)
(* in insertion order, so two rows of one pid are representable; the       *)
(* unique constraints of the Document model are what the database checks   *)
(* on INSERT.                                                              *)
(***************************************************************************)
\* SQL NULL of a text column, and of a timestamp column (a set timestamp t
\* is <<t>>)
Null == "NULL"
NullTime == << >>

\* SELECT pid FROM documents WHERE pid = %s ... fetchone()
SelectPid(rows, pid) == \E i \in DOMAIN rows : rows[i].pid = pid

\* The constraint with unique=True left off the pid column.
UniqueDocumentIdOnly(rows, row) ==
    \E i \in DOMAIN rows : rows[i].document_id = row.document_id

\* Document.document_id and Document.pid are declared unique=True
UniqueViolation(rows, row) ==
    \E i \in DOMAIN rows :
        rows[i].pid = row.pid \/ rows[i].document_id = row.document_id

\* INSERT INTO documents (...) VALUES (..., NOW(), 1)
NewDocument(rec, now) ==
    [document_id |-> <<"doc_pid_", rec.pid>>,
     title |-> rec.title,
     publication_year |-> rec.year,
     filename |-> <<rec.pid, ".pdf">>,
     pid |-> rec.pid,
     pdf_count |-> rec.pdf_count,
     tiff_count |-> rec.tiff_count,
     doc_metadata |-> rec.metadata,
     last_synced_at |-> <<now>>,
     sync_version |-> 1]

\* The update with pdf_count added to the stored count instead of replacing
\* it.
UpdateDocumentAccumulating(row, rec, now) ==
    [row EXCEPT !.title = rec.title,
                !.publication_year = rec.year,
                !.pdf_count = @ + rec.pdf_count,
                !.tiff_count = rec.tiff_count,
                !.doc_metadata = rec.metadata,
                !.last_synced_at = <<now>>,
                !.sync_version = @ + 1]

\* UPDATE documents SET ... sync_version = sync_version + 1 WHERE pid = %s
UpdateDocument(row, rec, now) ==
    [row EXCEPT !.title = rec.title,
                !.publication_year = rec.year,
                !.pdf_count = rec.pdf_count,
                !.tiff_count = rec.tiff_count,
                !.doc_metadata = rec.metadata,
                !.last_synced_at = <<now>>,
                !.sync_version = @ + 1]

\* The update that keeps nothing but the rows of the pid it updates.
UpdateKeepingOnlyPid(rows, rec, now) ==
    LET kept == SelectSeq(rows, LAMBDA r : r.pid = rec.pid)
    IN  [i \in DOMAIN kept |-> UpdateDocument(kept[i], rec, now)]

UpdateWherePid(rows, rec, now) ==
    [i \in DOMAIN rows |->
        IF rows[i].pid = rec.pid THEN UpdateDocument(rows[i], rec, now)
        ELSE rows[i]]

\* INSERT INTO sync_log (...) VALUES (sync_id, 'manual', ..., 'running', ...)
RunningSyncRow(id, now) ==
    [sync_id |-> id,
     sync_type |-> "manual",
     sync_source |-> "ddr_graphql_parent_pids",
     status |-> "running",
     triggered_by |-> "script:sync_parent_pids.py (remote)",
     sync_started_at |-> now,
     sync_completed_at |-> NullTime,
     records_new |-> 0,
     records_updated |-> 0,
     records_failed |-> 0,
     pids_processed |-> << >>,
     pids_failed |-> << >>,
     error_log |-> Null]

\* The status chosen without looking at records_failed.
FinalStatusIgnoringFailures(failed) == "completed"

\* 'completed' if records_failed == 0 else 'partial'
FinalStatus(failed) == IF failed = 0 THEN "completed" ELSE "partial"

\* The finalizing update with pids_failed left out of it.
CompleteSyncRowWithoutFailedPids(row, new, updated, failed, processed, failedPids, now) ==
    [row EXCEPT !.sync_completed_at = <<now>>,
                !.records_new = new,
                !.records_updated = updated,
                !.records_failed = failed,
                !.pids_processed = processed,
                !.status = FinalStatus(failed)]

\* UPDATE sync_log SET sync_completed_at = NOW(), ... WHERE sync_id = %s
CompleteSyncRow(row, new, updated, failed, processed, failedPids, now) ==
    [row EXCEPT !.sync_completed_at = <<now>>,
                !.records_new = new,
                !.records_updated = updated,
                !.records_failed = failed,
                !.pids_processed = processed,
                !.pids_failed = failedPids,
                !.status = FinalStatus(failed)]

UpdateSyncLog(rows, id, new, updated, failed, processed, failedPids, now) ==
    [i \in DOMAIN rows |->
        IF rows[i].sync_id = id
        THEN CompleteSyncRow(rows[i], new, updated, failed, processed,
                             failedPids, now)
        ELSE rows[i]]

(***************************************************************************)
(* GraphQLSyncService (src/backend/app/services/graphql_sync.py), called   *)
(* through POST /sync/graphql.  Every call of                              *)
(* sync_graphql_item_to_database opens a session of its own, so two        *)
(* requests served at once interleave between the existence query of an    *)
(* item and the commit of its insert.                                      *)
(***************************************************************************)
Callers == 1 .. NumCallers

\* A title is the sequence of its characters.
Digits == {"0", "1", "2", "3", "4", "5", "6", "7", "8", "9"}
DigitVal(c) == CHOOSE n \in 0 .. 9 : ToString(n) = c

Item(id, pid, title, pdfs, tiffs, jpgs) ==
    [id |-> id, pid |-> pid, title |-> title, pdf_files |-> pdfs,
     tiff_files |-> tiffs, jpg_derivatives |-> jpgs]
Master(url, filename) == [url |-> url, filename |-> filename]

\* The media items a request can carry: a PDF master, a TIFF master, JPG
\* derivatives only, a PDF without pid, no media at all.
MediaItems ==
    { Item("m1", "p1", <<"R", " ", "1", "9", "7", "5">>,
           << Master("u1", "a.pdf") >>, << >>, << >>),
      Item("m2", "p2", <<"R">>,
           << >>, << Master("u2", "b.tif") >>, << Master("u3", "b.jpg") >>),
      Item("m3", "p3", <<"1", "9", "5", "9">>,
           << >>, << >>, << Master("u4", "c.jpg") >>),
      Item("m4", NoPid, <<"R">>, << Master("u5", "d.pdf") >>, << >>, << >>),
      Item("m5", "p1", <<"R">>, << >>, << >>, << >>) }

\* The categorisation that looks at the TIFF files before the PDF files.
ItemCategoryTiffFirst(item) ==
    IF item.pid = NoPid THEN "skipped"
    ELSE IF Len(item.tiff_files) > 0 THEN "tiff"
    ELSE IF Len(item.pdf_files) > 0 THEN "pdf"
    ELSE IF Len(item.jpg_derivatives) > 0 THEN "jpg_only"
    ELSE "no_media"

\* parse_graphql_media_response: the category of one item
ItemCategory(item) ==
    IF item.pid = NoPid THEN "skipped"
    ELSE IF Len(item.pdf_files) > 0 THEN "pdf"
    ELSE IF Len(item.tiff_files) > 0 THEN "tiff"
    ELSE IF Len(item.jpg_derivatives) > 0 THEN "jpg_only"
    ELSE "no_media"

Eligible(item) ==
    [type |-> ItemCategory(item),
     item |-> item,
     master_files |-> IF ItemCategory(item) = "pdf" THEN item.pdf_files
                      ELSE item.tiff_files]

parse_graphql_media_response(all_items) ==
    LET of(cat) == SelectSeq(all_items, LAMBDA it : ItemCategory(it) \in cat)
        masters == of({"pdf", "tiff"})
    IN  [total_items |-> Len(all_items),
         training_eligible_count |-> Len(masters),
         jpg_only_count |-> Len(of({"jpg_only"})),
         no_media_count |-> Len(of({"no_media"})),
         training_eligible |-> [i \in 1 .. Len(masters) |-> Eligible(masters[i])],
         jpg_only |-> of({"jpg_only"}),
         no_media |-> of({"no_media"})]

\* re.search(r'(19[6-8][0-9])', title): the first match, else 1970
YearMatches(t) ==
    { i \in 1 .. Len(t) - 3 :
        /\ t[i] = "1"
        /\ t[i + 1] = "9"
        /\ t[i + 2] \in {"6", "7", "8"}
        /\ t[i + 3] \in Digits }

YearFromTitle(t) ==
    IF YearMatches(t) = {} THEN DefaultYear
    ELSE LET i == CHOOSE k \in YearMatches(t) :
                      \A j \in YearMatches(t) : k <= j
         IN  1900 + 10 * DigitVal(t[i + 2]) + DigitVal(t[i + 3])

\* doc = Document(document_id=..., pid=pid, ...)
ServiceDocument(uuid, item, master_file, file_type) ==
    [document_id |-> <<"doc_", uuid>>,
     pid |-> item.pid,
     authority_id |-> item.id,
     title |-> item.title,
     publication_year |-> YearFromTitle(item.title),
     filename |-> master_file.filename,
     file_type |-> IF file_type = "tiff" THEN "image/tiff"
                   ELSE "application/pdf",
     s3_key |-> master_file.url,
     file_size_bytes |-> 0,
     processing_status |-> "pending"]

(***************************************************************************)
(* State.                                                                  *)
(***************************************************************************)
VARIABLES
    documents,        \* committed rows of table documents
    sync_log,         \* committed rows of table sync_log
    pc,               \* position of the running script
    data,             \* main: what fetch_graphql_records returned
    parent_records,   \* main: what analyze_parent_records returned
    idx,              \* remote script: index of the next record of the loop
    records_new, records_updated, records_failed,
    pids_processed, pids_failed,
    sync_id,          \* remote script: id of the sync_log row it wrote
    txDocs,           \* documents as the open transaction sees them
    txAborted,        \* the open transaction is in the failed state
    exit_code,        \* exit status of main once it ended, else Null
    runNo,            \* number of the current run; also the clock NOW() reads
    prevData,         \* the response the previous finalized run fetched
    prevDocs,         \* documents as that run left them
    calls,            \* per caller: its bulk_sync_from_graphql_response call
    nextUuid,         \* the next value uuid4 yields
    media,            \* classifiers: the media item under classification
    verdict,          \* classifiers: what one classifier made of it
    request,          \* service: all_media_items of the request last received
    report,           \* service: what the last parse / validation returned
    served,           \* service: requests received so far
    s3_client,        \* S3SyncService: whether the client was initialized
    valid_pids_cache, \* S3SyncService: _valid_pids_cache
    listing,          \* S3SyncService: the last listing of the bucket
    triggers,         \* per caller: its request to /authorities/... and task
    scripts,          \* per operator: the remote script the operator runs
    pdf_call,         \* S3SyncService: the process_pdf call
    document_chunks,  \* committed rows of table document_chunks
    database_authorities, \* committed rows of table database_authorities
    authority_run,    \* sync_all_authorities: the run and its transaction
    chunk_call        \* DoclingProcessor: the chunk_text call

dbVars == <<documents, sync_log>>
loopVars == <<idx, records_new, records_updated, records_failed,
              pids_processed, pids_failed, txDocs, txAborted>>
histVars == <<prevData, prevDocs>>
scriptVars == <<pc, data, parent_records, loopVars, sync_id, exit_code, runNo,
                histVars>>
svcVars == <<calls, nextUuid>>
clsVars == <<media, verdict>>
repVars == <<request, report, served>>
s3Vars == <<s3_client, valid_pids_cache, listing>>
pdfVars == <<pdf_call, document_chunks>>
authVars == <<database_authorities, authority_run>>
extraVars == <<authVars, chunk_call>>
backendVars == <<s3Vars, triggers, scripts, pdfVars, extraVars>>
vars == <<dbVars, scriptVars, svcVars, clsVars, repVars, backendVars>>

NoSync == 0 - 1

DbInit ==
    /\ documents = << >>
    /\ sync_log = << >>

ScriptInit ==
    /\ pc = "main"
    /\ data = None
    /\ parent_records = << >>
    /\ idx = 1
    /\ records_new = 0
    /\ records_updated = 0
    /\ records_failed = 0
    /\ pids_processed = << >>
    /\ pids_failed = << >>
    /\ sync_id = NoSync
    /\ txDocs = << >>
    /\ txAborted = FALSE
    /\ exit_code = Null
    /\ runNo = 1
    /\ prevData = None
    /\ prevDocs = << >>

Exit(code) ==
    /\ pc' = "exit"
    /\ exit_code' = code

\* main, step 1: data = fetch_graphql_records().  Any exception of the
\* request (unreachable, timeout, raise_for_status) is caught and None is
\* returned.
Main_Fetch ==
    /\ pc = "main"
    /\ \E r \in Responses : data' = r
    /\ pc' = "fetched"
    /\ UNCHANGED <<dbVars, parent_records, loopVars, sync_id, exit_code,
                   runNo, histVars, svcVars, clsVars, backendVars, repVars>>

\* main: "if not data: sys.exit(1)", then step 2 and
\* "if not parent_records: sys.exit(1)".
Main_Analyze ==
    /\ pc = "fetched"
    /\ IF data = None
       THEN /\ Exit("1")
            /\ UNCHANGED parent_records
       ELSE LET parsed == analyze_parent_records(data, runNo)
            IN  /\ parent_records' = parsed
                /\ IF parsed = << >>
                   THEN Exit("1")
                   ELSE /\ pc' = "transfer"
                        /\ UNCHANGED exit_code
    /\ UNCHANGED <<dbVars, data, loopVars, sync_id, runNo, histVars, svcVars, clsVars, backendVars, repVars>>

\* sync_to_database: the scp transfers (check=True) and the ssh that runs the
\* remote script.  A failed transfer raises out of main; a remote script that
\* cannot connect ends with a non-zero return code and main exits 1.
Sync_Transfer ==
    /\ pc = "transfer"
    /\ \E ok \in BOOLEAN :
          IF ok THEN /\ pc' = "start_log"
                     /\ UNCHANGED exit_code
          ELSE Exit("1")
    /\ UNCHANGED <<dbVars, data, parent_records, loopVars, sync_id, runNo,
                   histVars, svcVars, clsVars, backendVars, repVars>>

\* remote script: INSERT INTO sync_log ... 'running'; conn.commit(); then the
\* counters of the loop are initialised.  An exception here is not caught:
\* the script dies, nothing was committed, main exits 1.
Remote_StartSyncLog ==
    /\ pc = "start_log"
    /\ \E ok \in BOOLEAN :
          IF ok
          THEN /\ sync_id' = runNo
               /\ sync_log' = Append(sync_log, RunningSyncRow(runNo, runNo))
               /\ pc' = "loop"
               /\ idx' = 1
               /\ records_new' = 0
               /\ records_updated' = 0
               /\ records_failed' = 0
               /\ pids_processed' = << >>
               /\ pids_failed' = << >>
               /\ txDocs' = documents
               /\ txAborted' = FALSE
               /\ UNCHANGED exit_code
          ELSE /\ Exit("1")
               /\ UNCHANGED <<sync_log, sync_id, loopVars>>
    /\ UNCHANGED <<documents, data, parent_records, runNo, histVars, svcVars, clsVars, backendVars, repVars>>

\* One iteration of "for record in parent_records" of the remote script.
\* All iterations share the connection's single transaction: once a statement
\* has failed the transaction is in the failed state and every further
\* statement raises until the transaction ends.  dbError is the database
\* rejecting a statement of this iteration.
Remote_ProcessRecord ==
    /\ pc = "loop"
    /\ idx <= Len(parent_records)
    /\ LET rec == parent_records[idx]
           existing == SelectPid(txDocs, rec.pid)
           row == NewDocument(rec, runNo)
       IN  \E dbError \in BOOLEAN :
              LET raised == \/ txAborted
                            \/ dbError
                            \/ (~existing /\ UniqueViolation(txDocs, row))
              IN  IF raised
                  THEN /\ records_failed' = records_failed + 1
                       /\ pids_failed' = Append(pids_failed, rec.pid)
                       /\ txAborted' = TRUE
                       /\ UNCHANGED <<records_new, records_updated,
                                      pids_processed, txDocs>>
                  ELSE /\ IF existing
                          THEN /\ txDocs' = UpdateWherePid(txDocs, rec, runNo)
                               /\ records_updated' = records_updated + 1
                               /\ UNCHANGED records_new
                          ELSE /\ txDocs' = Append(txDocs, row)
                               /\ records_new' = records_new + 1
                               /\ UNCHANGED records_updated
                       /\ pids_processed' = Append(pids_processed, rec.pid)
                       /\ UNCHANGED <<records_failed, pids_failed, txAborted>>
    /\ idx' = idx + 1
    /\ UNCHANGED <<dbVars, pc, data, parent_records, sync_id, exit_code,
                   runNo, histVars, svcVars, clsVars, backendVars, repVars>>

\* conn.commit() after the loop.  Committing a failed transaction rolls it
\* back without raising.  A commit that raises is not caught: the script
\* dies with the work of the loop lost.
Remote_Commit ==
    /\ pc = "loop"
    /\ idx > Len(parent_records)
    /\ \E ok \in BOOLEAN :
          IF ok
          THEN /\ documents' = IF txAborted THEN documents ELSE txDocs
               /\ pc' = "complete_log"
               /\ UNCHANGED exit_code
          ELSE /\ Exit("1")
               /\ UNCHANGED documents
    /\ UNCHANGED <<sync_log, data, parent_records, loopVars, sync_id, runNo,
                   histVars, svcVars, clsVars, backendVars, repVars>>

\* UPDATE sync_log SET ... status = ... WHERE sync_id; conn.commit(); the
\* verification query; conn.close(); main exits 0.  An exception of the
\* update or of its commit is not caught.
Remote_CompleteSyncLog ==
    /\ pc = "complete_log"
    /\ \E ok \in BOOLEAN :
          IF ok
          THEN /\ sync_log' = UpdateSyncLog(sync_log, sync_id, records_new,
                                            records_updated, records_failed,
                                            pids_processed, pids_failed, runNo)
               /\ Exit("0")
          ELSE /\ Exit("1")
               /\ UNCHANGED sync_log
    /\ UNCHANGED <<documents, data, parent_records, loopVars, sync_id, runNo,
                   histVars, svcVars, clsVars, backendVars, repVars>>

\* The operator starts the script again.  prevData / prevDocs remember the
\* run that just ended when it ended with exit status 0.
NextRun ==
    /\ pc = "exit"
    /\ runNo < MaxRuns
    /\ runNo' = runNo + 1
    /\ prevData' = IF exit_code = "0" THEN data ELSE None
    /\ prevDocs' = documents
    /\ pc' = "main"
    /\ data' = None
    /\ parent_records' = << >>
    /\ idx' = 1
    /\ records_new' = 0
    /\ records_updated' = 0
    /\ records_failed' = 0
    /\ pids_processed' = << >>
    /\ pids_failed' = << >>
    /\ sync_id' = NoSync
    /\ txDocs' = << >>
    /\ txAborted' = FALSE
    /\ exit_code' = Null
    /\ UNCHANGED <<dbVars, svcVars, clsVars, backendVars, repVars>>

(***************************************************************************)
(* bulk_sync_from_graphql_response and sync_graphql_item_to_database, one  *)
(* call per caller.                                                        *)
(***************************************************************************)
IdleCall ==
    [pc |-> "idle", dry_run |-> FALSE, total_items |-> 0,
     eligible |-> << >>, i |-> 1,
     synced_count |-> 0, skipped_count |-> 0, error_count |-> 0]

ServiceIdle ==
    /\ calls = [c \in Callers |-> IdleCall]
    /\ nextUuid = 1

\* Position of the loop "for eligible in parsed['training_eligible']" after
\* an iteration: the next item, or the return of the statistics.
AfterItem(call) ==
    [call EXCEPT !.i = @ + 1,
                 !.pc = IF call.i + 1 > Len(call.eligible) THEN "done"
                        ELSE "item"]

\* What parse_graphql_media_response makes of the requests that can arrive:
\* the parts of its result the loop and the returned statistics read.
ParsedRequests ==
    { [total_items |-> parse_graphql_media_response(items).total_items,
       training_eligible |->
           parse_graphql_media_response(items).training_eligible] :
          items \in Batches(MediaItems, MaxItems) }

\* The call as it enters the loop over parsed['training_eligible'].
BeginCall(parsed, dry) ==
    [pc |-> IF parsed.training_eligible = << >> THEN "done" ELSE "item",
     dry_run |-> dry,
     total_items |-> parsed.total_items,
     eligible |-> parsed.training_eligible,
     i |-> 1,
     synced_count |-> 0,
     skipped_count |-> 0,
     error_count |-> 0]

\* POST /sync/graphql: parsed = self.parse_graphql_media_response(json_data)
\* and the counters of the loop.
Bulk_Begin(c) ==
    /\ calls[c].pc = "idle"
    /\ \E parsed \in ParsedRequests, dry \in BOOLEAN :
          calls' = [calls EXCEPT ![c] = BeginCall(parsed, dry)]
    /\ UNCHANGED <<dbVars, scriptVars, nextUuid, clsVars, backendVars, repVars>>

\* The iteration with the hit of the existence query returning None.
Bulk_ItemExistingAsError(c) ==
    /\ calls[c].pc = "item"
    /\ LET call == calls[c]
           e == call.eligible[call.i]
       IN  \E queryError \in BOOLEAN :
              calls' = [calls EXCEPT ![c] =
                  IF e.master_files = << >>
                  THEN AfterItem([call EXCEPT !.skipped_count = @ + 1])
                  ELSE IF e.item.pid = NoPid \/ queryError
                          \/ SelectPid(documents, e.item.pid)
                  THEN AfterItem([call EXCEPT !.error_count = @ + 1])
                  ELSE IF call.dry_run
                  THEN AfterItem([call EXCEPT !.synced_count = @ + 1])
                  ELSE [call EXCEPT !.pc = "insert"]]
    /\ UNCHANGED <<dbVars, scriptVars, nextUuid, clsVars, backendVars, repVars>>

\* The iteration without the dry-run return.
Bulk_ItemIgnoringDryRun(c) ==
    /\ calls[c].pc = "item"
    /\ LET call == calls[c]
           e == call.eligible[call.i]
       IN  \E queryError \in BOOLEAN :
              calls' = [calls EXCEPT ![c] =
                  IF e.master_files = << >>
                  THEN AfterItem([call EXCEPT !.skipped_count = @ + 1])
                  ELSE IF e.item.pid = NoPid \/ queryError
                  THEN AfterItem([call EXCEPT !.error_count = @ + 1])
                  ELSE IF SelectPid(documents, e.item.pid)
                  THEN AfterItem([call EXCEPT !.synced_count = @ + 1])
                  ELSE [call EXCEPT !.pc = "insert"]]
    /\ UNCHANGED <<dbVars, scriptVars, nextUuid, clsVars, backendVars, repVars>>

\* One iteration up to the point where the item is known to need an insert:
\* "if master_files", "if not pid", the existence query of its own session
\* (a hit returns existing.document_id, counted as synced), and the dry-run
\* return.  queryError is the query raising: rollback, None, an error.
Bulk_Item(c) ==
    /\ calls[c].pc = "item"
    /\ LET call == calls[c]
           e == call.eligible[call.i]
       IN  \E queryError \in BOOLEAN :
              calls' = [calls EXCEPT ![c] =
                  IF e.master_files = << >>
                  THEN AfterItem([call EXCEPT !.skipped_count = @ + 1])
                  ELSE IF e.item.pid = NoPid \/ queryError
                  THEN AfterItem([call EXCEPT !.error_count = @ + 1])
                  ELSE IF SelectPid(documents, e.item.pid) \/ call.dry_run
                  THEN AfterItem([call EXCEPT !.synced_count = @ + 1])
                  ELSE [call EXCEPT !.pc = "insert"]]
    /\ UNCHANGED <<dbVars, scriptVars, nextUuid, clsVars, backendVars, repVars>>

\* db.add(doc); db.commit(): the database checks the unique constraints at
\* the insert.  A violation, or any other error of the commit (dbError), is
\* caught: rollback, None is returned and the item counts as an error.
Bulk_Insert(c) ==
    /\ calls[c].pc = "insert"
    /\ LET call == calls[c]
           e == call.eligible[call.i]
           doc == ServiceDocument(nextUuid, e.item, e.master_files[1], e.type)
       IN  \E dbError \in BOOLEAN :
              IF dbError \/ UniqueViolation(documents, doc)
              THEN /\ calls' = [calls EXCEPT ![c] =
                          AfterItem([call EXCEPT !.error_count = @ + 1])]
                   /\ UNCHANGED documents
              ELSE /\ documents' = Append(documents, doc)
                   /\ calls' = [calls EXCEPT ![c] =
                          AfterItem([call EXCEPT !.synced_count = @ + 1])]
    /\ nextUuid' = nextUuid + 1
    /\ UNCHANGED <<sync_log, scriptVars, clsVars, backendVars, repVars>>

(***************************************************************************)
(* Requests to POST /sync/graphql served one after the other: the archive  *)
(* is synced again after its items have changed.                           *)
(***************************************************************************)
\* An item with a PDF master, the same item after its title was revised in
\* the archive, and an item that has JPG derivatives only.
ResyncItems ==
    { Item("m1", "p1", <<"1", "9", "7", "5">>,
           << Master("u1", "a.pdf") >>, << >>, << >>),
      Item("m1", "p1", <<"1", "9", "8", "1">>,
           << Master("u1", "a.pdf") >>, << >>, << >>),
      Item("m2", "p2", <<"R">>, << >>, << >>, << Master("u2", "b.jpg") >>) }

\* The next request arrives once the one before it has returned.
Resync_Begin ==
    /\ calls[1].pc \in {"idle", "done"}
    /\ served < MaxRequests
    /\ \E items \in Batches(ResyncItems, MaxItems), dry \in BOOLEAN :
          /\ request' = items
          /\ calls' = [calls EXCEPT ![1] =
                 BeginCall(parse_graphql_media_response(items), dry)]
    /\ served' = served + 1
    /\ UNCHANGED <<dbVars, scriptVars, nextUuid, clsVars, backendVars, report>>

(***************************************************************************)
(* The eligibility classifiers, each applied to one media item.            *)
(***************************************************************************)
PdfRoles == {"pdf_master", "pdf_browser"}
FileNames == {"a.pdf", "b.pdf"}
JpgRoles == {"master", "display"}

PdfFiles == { File(r, f) : r \in PdfRoles, f \in FileNames }
DigitalAssets == { Asset(f, b) : f \in FileNames, b \in BOOLEAN }

\* The media items put before the classifiers: every field one of them
\* reads.
ClassifiedMedia ==
    [pid : {"p1", NoPid},
     used_for_ml : BOOLEAN,
     pdf_files : SeqsUpTo(PdfFiles, MaxFiles),
     tiff_files : { << >>, << File("tiff_master", "a.tif") >> },
     jpg_derivatives : { << >> } \cup { << File(r, "a.jpg") >> : r \in JpgRoles },
     digital_assets : SeqsUpTo(DigitalAssets, MaxAssets)]

\* quick_sync_pids.py: asset_ml_map[filename] = use_for_ml, the last asset of
\* a filename winning; "pdf_filename in asset_ml_map and asset_ml_map[...]"
InAssetMlMap(assets, f) == \E i \in DOMAIN assets : assets[i].filename = f

AssetMlMap(assets, f) ==
    LET last == CHOOSE i \in DOMAIN assets :
                    /\ assets[i].filename = f
                    /\ \A j \in DOMAIN assets :
                          assets[j].filename = f => j <= i
    IN  assets[last].use_for_ml

QuickSyncPdfCount(m) ==
    LET master_pdfs == SelectSeq(m.pdf_files,
                                 LAMBDA p : p.role = "pdf_master")
    IN  Cardinality({ k \in DOMAIN master_pdfs :
            /\ InAssetMlMap(m.digital_assets, master_pdfs[k].filename)
            /\ AssetMlMap(m.digital_assets, master_pdfs[k].filename) })

\* fetch_and_sync_pids.py analyze_records: has_pdf and use_for_ml
RecordsMediaCounts(m) ==
    Len(m.pdf_files) > 0 /\ AnyUseForMl(m.digital_assets)

\* pid_media_count.py get_media_counts_for_pid, one media_item of the loop
MediaCountsForItem(m) ==
    IF ~m.used_for_ml THEN [pdf_count |-> 0, tiff_count |-> 0]
    ELSE [pdf_count |-> Len(m.pdf_files),
          tiff_count |->
              Cardinality({ k \in DOMAIN m.jpg_derivatives :
                  m.jpg_derivatives[k].role \in
                      {"master", "preservation", "access-master"} })]

Verdict(by, pdf, tiff, entries) ==
    [by |-> by, pdf_count |-> pdf, tiff_count |-> tiff,
     training_eligible |-> entries]

ClassifyIdle ==
    /\ media = [pid |-> NoPid, used_for_ml |-> FALSE, pdf_files |-> << >>,
                tiff_files |-> << >>, jpg_derivatives |-> << >>,
                digital_assets |-> << >>]
    /\ verdict = Verdict("none", 0, 0, 0)

ClassifyInit ==
    /\ media \in ClassifiedMedia
    /\ verdict = Verdict("none", 0, 0, 0)

Classify_QuickSync ==
    /\ verdict.by = "none"
    /\ verdict' = Verdict("quick_sync_pids", QuickSyncPdfCount(media), 0, 0)
    /\ UNCHANGED <<dbVars, scriptVars, svcVars, media, repVars, backendVars>>

Classify_AnalyzeParent ==
    /\ verdict.by = "none"
    /\ verdict' = Verdict("analyze_parent_records",
                          IF ParentMediaCounts(media) THEN 1 ELSE 0, 0, 0)
    /\ UNCHANGED <<dbVars, scriptVars, svcVars, media, repVars, backendVars>>

Classify_AnalyzeRecords ==
    /\ verdict.by = "none"
    /\ verdict' = Verdict("analyze_records",
                          IF RecordsMediaCounts(media) THEN 1 ELSE 0, 0, 0)
    /\ UNCHANGED <<dbVars, scriptVars, svcVars, media, repVars, backendVars>>

Classify_MediaCounts ==
    /\ verdict.by = "none"
    /\ verdict' = Verdict("get_media_counts_for_pid",
                          MediaCountsForItem(media).pdf_count,
                          MediaCountsForItem(media).tiff_count, 0)
    /\ UNCHANGED <<dbVars, scriptVars, svcVars, media, repVars, backendVars>>

\* parse_graphql_media_response over the one-item response
Classify_Parse ==
    /\ verdict.by = "none"
    /\ verdict' =
          Verdict("parse_graphql_media_response", 0, 0,
                  parse_graphql_media_response(<<
                      Item("m", media.pid, <<"R">>, media.pdf_files,
                           media.tiff_files, media.jpg_derivatives)
                  >>).training_eligible_count)
    /\ UNCHANGED <<dbVars, scriptVars, svcVars, media, repVars, backendVars>>

(***************************************************************************)
(* quick_sync_pids.py, the script that upserts the same documents table    *)
(* with one commit per record.  It has no exception handler: an error of   *)
(* the request or of a statement ends the script with a traceback.         *)
(***************************************************************************)
\* pdf_count of a record: the file-level gate over its attached media
QuickPdfCount(record) ==
    LET counts == [i \in DOMAIN record.attached_media |->
                      QuickSyncPdfCount(record.attached_media[i])]
        sum[i \in 0 .. Len(counts)] ==
            IF i = 0 THEN 0 ELSE sum[i - 1] + counts[i]
    IN  sum[Len(counts)]

\* metadata = {'pdf_count': pdf_count, 'synced_from': 'ddr_graphql'}
QuickMetadata(record) ==
    [pdf_count |-> QuickPdfCount(record), synced_from |-> "ddr_graphql"]

\* INSERT INTO documents (document_id, title, publication_year, filename,
\* pid, pdf_count, doc_metadata, last_synced_at): the statement names no
\* other column.
QuickNewDocument(record, now) ==
    [document_id |-> <<"doc_pid_", record.pid>>,
     title |-> record.title,
     publication_year |-> ParseYear(record.project_start_date),
     filename |-> <<record.pid, ".pdf">>,
     pid |-> record.pid,
     pdf_count |-> QuickPdfCount(record),
     doc_metadata |-> QuickMetadata(record),
     last_synced_at |-> <<now>>]

\* UPDATE documents SET title, publication_year, pdf_count, doc_metadata,
\* last_synced_at = NOW() WHERE pid = :pid
QuickUpdateDocument(row, record, now) ==
    [row EXCEPT !.title = record.title,
                !.publication_year = ParseYear(record.project_start_date),
                !.pdf_count = QuickPdfCount(record),
                !.doc_metadata = QuickMetadata(record),
                !.last_synced_at = <<now>>]

QuickUpdateWherePid(rows, record, now) ==
    [i \in DOMAIN rows |->
        IF rows[i].pid = record.pid
        THEN QuickUpdateDocument(rows[i], record, now)
        ELSE rows[i]]

\* requests.post(...); data = response.json(); records = data['data'].get(
\* 'records_v1', []): a failed request raises, a response without 'data' is
\* a KeyError.
Quick_Fetch ==
    /\ pc = "main"
    /\ \E r \in Responses :
          /\ data' = r
          /\ IF r.kind = "data"
             THEN /\ pc' = "quick_loop"
                  /\ UNCHANGED exit_code
             ELSE Exit("1")
    /\ idx' = 1
    /\ UNCHANGED <<dbVars, parent_records, records_new, records_updated,
                   records_failed, pids_processed, pids_failed, txDocs,
                   txAborted, sync_id, runNo, histVars, svcVars, clsVars, backendVars,
                   repVars>>

\* One iteration of "for record in records": skip a record without pid,
\* else count, SELECT, UPDATE or INSERT, db.commit().  dbError is a statement
\* or the commit raising.
Quick_Record ==
    /\ pc = "quick_loop"
    /\ idx <= Len(data.records_v1)
    /\ LET record == data.records_v1[idx]
       IN  IF record.pid = NoPid
           THEN /\ idx' = idx + 1
                /\ UNCHANGED <<documents, pc, exit_code>>
           ELSE \E dbError \in BOOLEAN :
                   IF \/ dbError
                      \/ /\ ~SelectPid(documents, record.pid)
                         /\ UniqueViolation(documents,
                                            QuickNewDocument(record, runNo))
                   THEN /\ Exit("1")
                        /\ UNCHANGED <<documents, idx>>
                   ELSE /\ documents' =
                              IF SelectPid(documents, record.pid)
                              THEN QuickUpdateWherePid(documents, record, runNo)
                              ELSE Append(documents,
                                          QuickNewDocument(record, runNo))
                        /\ idx' = idx + 1
                        /\ UNCHANGED <<pc, exit_code>>
    /\ UNCHANGED <<sync_log, data, parent_records, records_new,
                   records_updated, records_failed, pids_processed,
                   pids_failed, txDocs, txAborted, sync_id, runNo, histVars,
                   svcVars, clsVars, backendVars, repVars>>

\* The verification query, db.close() and the end of the script.
Quick_Done ==
    /\ pc = "quick_loop"
    /\ idx > Len(data.records_v1)
    /\ Exit("0")
    /\ UNCHANGED <<dbVars, data, parent_records, loopVars, sync_id, runNo,
                   histVars, svcVars, clsVars, backendVars, repVars>>

(***************************************************************************)
(* The read-only operations of GraphQLSyncService: the parse of a response *)
(* and POST /sync/validate, the comparison of a response with the          *)
(* documents table.                                                        *)
(***************************************************************************)
ReportIdle ==
    /\ request = << >>
    /\ report = [op |-> "none"]
    /\ served = 0

\* The media items a response can list: with or without pid, and every
\* combination of PDF files, TIFF files and JPG derivatives.
ReportItems ==
    { Item("m", pid, <<"R">>, pdfs, tiffs, jpgs) :
        pid \in {"p1", "p2", NoPid},
        pdfs \in { << >>, << Master("u1", "a.pdf") >> },
        tiffs \in { << >>, << Master("u2", "a.tif") >> },
        jpgs \in { << >>, << Master("u3", "a.jpg") >> } }

\* The items whose master file earlier requests have persisted.
StoredItems ==
    { Item("m", pid, <<"R">>, << Master("u1", "a.pdf") >>, << >>, << >>) :
        pid \in {"p1", "p3"} }

\* The documents tables those requests left: one row per item, in the order
\* of the inserts.
PersistedStores ==
    { [k \in DOMAIN b |-> ServiceDocument(k, b[k], b[k].pdf_files[1], "pdf")] :
        b \in Batches(StoredItems, MaxItems) }

\* SELECT pid FROM documents WHERE pid IS NOT NULL ORDER BY pid
get_training_corpus_pids(docs) == { docs[i].pid : i \in DOMAIN docs }

validate_graphql_against_database(all_items, docs) ==
    LET parsed == parse_graphql_media_response(all_items)
        graphql_pids ==
            { parsed.training_eligible[i].item.pid :
                  i \in DOMAIN parsed.training_eligible } \ { NoPid }
        db_pids == get_training_corpus_pids(docs)
    IN  [graphql_pid_count |-> Cardinality(graphql_pids),
         database_pid_count |-> Cardinality(db_pids),
         needs_sync |-> graphql_pids \ db_pids,
         needs_sync_count |-> Cardinality(graphql_pids \ db_pids),
         orphaned |-> db_pids \ graphql_pids,
         orphaned_count |-> Cardinality(db_pids \ graphql_pids),
         already_synced |-> graphql_pids \cap db_pids,
         already_synced_count |-> Cardinality(graphql_pids \cap db_pids)]

\* list(s) of a Python set of strings: its elements in the iteration order
\* of the set, which follows the hashes of the strings and differs from one
\* process to the next.
ListOfSet(S) ==
    { s \in [1 .. Cardinality(S) -> S] :
        \A i, j \in DOMAIN s : i # j => s[i] # s[j] }

\* 'needs_sync': list(needs_sync), 'orphaned': list(orphaned),
\* 'already_synced': list(in_both)
ListedGroups(result) ==
    [needs_sync : ListOfSet(result.needs_sync),
     orphaned : ListOfSet(result.orphaned),
     already_synced : ListOfSet(result.already_synced)]

\* The rows of docs whose pid is not in pids.
WithoutPids(docs, pids) == SelectSeq(docs, LAMBDA d : d.pid \notin pids)

\* A validation that removes the rows it reports as orphaned.
Report_ValidateDeletingOrphans ==
    \E items \in Batches(ReportItems, MaxItems) :
        LET result == validate_graphql_against_database(items, documents)
        IN  /\ report.op = "none"
            /\ request' = items
            /\ \E lists \in ListedGroups(result) :
                  report' = [op |-> "validate", result |-> result,
                             listed |-> lists]
            /\ documents' = WithoutPids(documents, result.orphaned)
            /\ UNCHANGED <<sync_log, scriptVars, svcVars, clsVars, backendVars, served>>

\* POST /sync/validate: the report of validate_graphql_against_database, or
\* HTTP 500 when the query of the pids raises.  result holds the three
\* groups as the sets the function computes, listed the lists it returns
\* them as.  The operations of this section write nothing, so one of them is
\* followed per behaviour: a second one would start from the same table.
Report_Validate ==
    \E items \in Batches(ReportItems, MaxItems), dbError \in BOOLEAN :
        LET result == validate_graphql_against_database(items, documents)
        IN  /\ report.op = "none"
            /\ request' = items
            /\ IF dbError
               THEN report' = [op |-> "validate_failed"]
               ELSE \E lists \in ListedGroups(result) :
                       report' = [op |-> "validate", result |-> result,
                                  listed |-> lists]
            /\ UNCHANGED <<dbVars, scriptVars, svcVars, clsVars, backendVars, served>>

\* parse_graphql_media_response applied to a response
Report_Parse ==
    \E items \in Batches(ReportItems, MaxItems) :
        /\ report.op = "none"
        /\ request' = items
        /\ report' = [op |-> "parse",
                      result |-> parse_graphql_media_response(items)]
        /\ UNCHANGED <<dbVars, scriptVars, svcVars, clsVars, backendVars, served>>

(***************************************************************************)
(* S3SyncService: the allowlist of pids and the listing of the bucket.     *)
(* An object key is the sequence of its words (runs of letters and digits) *)
(* and of the separators between them.  One S3SyncService is built when    *)
(* the routes are loaded and serves every request of the process.          *)
(***************************************************************************)
Separators == {"/", "_", "-", "."}
IsWord(t) == t \notin Separators

\* str.lower() of a word
Lower(w) == CASE w = "PDF" -> "pdf" [] w = "PID" -> "pid" [] OTHER -> w

\* os.path.basename(s3_key)
Basename(key) ==
    LET slashes == { i \in DOMAIN key : key[i] = "/" }
        last == IF slashes = {} THEN 0
                ELSE CHOOSE i \in slashes : \A j \in slashes : j <= i
    IN  SubSeq(key, last + 1, Len(key))

\* key.lower().endswith(('.pdf', '.tiff', '.tif'))
AllowedExtension(key) ==
    /\ Len(key) >= 2
    /\ key[Len(key) - 1] = "."
    /\ Lower(key[Len(key)]) \in {"pdf", "tiff", "tif"}

\* The words whose last letters are 'pid', and 'PID'.
WordsEndingIn == [pid |-> {"pid", "rapid"}, PID |-> {"PID"}]

\* re.search(prefix + r'[_-]([a-zA-Z0-9]+)', filename): where it can match
PrefixMatches(filename, prefix) ==
    { i \in 1 .. Len(filename) - 2 :
        /\ filename[i] \in WordsEndingIn[prefix]
        /\ filename[i + 1] \in {"_", "-"}
        /\ IsWord(filename[i + 2]) }

\* The group of the leftmost match.
PrefixGroup(filename, prefix) ==
    LET i == CHOOSE k \in PrefixMatches(filename, prefix) :
                 \A j \in PrefixMatches(filename, prefix) : k <= j
    IN  filename[i + 2]

\* The pid of a key, metadata not given; NoPid is None.
extract_pid_from_s3_key(s3_key) ==
    LET filename == Basename(s3_key)
    IN  IF PrefixMatches(filename, "pid") # {}
        THEN PrefixGroup(filename, "pid")
        ELSE IF PrefixMatches(filename, "PID") # {}
        THEN PrefixGroup(filename, "PID")
        ELSE IF Len(filename) >= 2 /\ IsWord(filename[1]) /\ filename[2] = "_"
        THEN filename[1]
        ELSE NoPid

\* re.findall(r'(19[6-8][0-9])', filename), a year per word that holds one
YearOfWord(w) == CASE w = "1975" -> 1975 [] w = "1962" -> 1962 [] OTHER -> 0

\* The first match between 1965 and 1985; 0 is None.
extract_year_from_filename(filename) ==
    LET hits == { i \in DOMAIN filename :
                    /\ YearOfWord(filename[i]) >= 1965
                    /\ YearOfWord(filename[i]) <= 1985 }
    IN  IF hits = {} THEN 0
        ELSE YearOfWord(filename[CHOOSE i \in hits : \A j \in hits : i <= j])

\* The objects the bucket can hold: keys that name a pid in each of the
\* three ways, behind a prefix and inside a longer word, a key that names
\* none, and a key of another file type.  list_objects_v2 yields the keys
\* of a bucket in the order of their bytes, each key once: KeyOrder is that
\* order.
KeyOrder ==
    << <<"a", ".", "pdf">>,
       <<"p1", "_", "1962", "_", "1975", ".", "PDF">>,
       <<"pid", "_", "p1", ".", "pdf">>,
       <<"pid", "_", "p1", ".", "txt">>,
       <<"rapid", "_", "p3", ".", "tiff">>,
       <<"scans", "/", "PID", "-", "p2", ".", "tif">> >>
BucketKeys == { KeyOrder[n] : n \in DOMAIN KeyOrder }
BucketObjects == { [Key |-> k, Size |-> 1] : k \in BucketKeys }

\* The listing of a bucket that holds the keys of KeyOrder at the places
\* held.
ListObjects(held) ==
    LET place == CHOOSE q \in [1 .. Cardinality(held) -> held] :
                     \A a, b \in 1 .. Cardinality(held) : a < b => q[a] < q[b]
    IN  [n \in 1 .. Cardinality(held) |->
            [Key |-> KeyOrder[place[n]], Size |-> 1]]

\* _valid_pids_cache = None
NoCache == [loaded |-> FALSE, pids |-> {}]

\* The returned allowlist, the cache the call leaves, and where the
\* allowlist came from.  dbError is the query raising: the error is logged,
\* the empty set is returned and nothing is cached.
get_valid_pids_from_postgres(cache, docs, dbError) ==
    IF cache.loaded
    THEN [valid_pids |-> cache.pids, cache |-> cache, from |-> "cache"]
    ELSE IF dbError
    THEN [valid_pids |-> {}, cache |-> cache, from |-> "error"]
    ELSE LET valid == { docs[i].pid : i \in DOMAIN docs } \ {Null}
         IN  [valid_pids |-> valid,
              cache |-> [loaded |-> TRUE, pids |-> valid],
              from |-> "query"]

\* assets.append({...})
ListedAsset(obj) ==
    [key |-> obj.Key,
     filename |-> Basename(obj.Key),
     pid |-> extract_pid_from_s3_key(obj.Key),
     size |-> obj.Size,
     publication_year |-> extract_year_from_filename(obj.Key)]

\* The filter with the test of membership left off.
PassesPidPresent(obj, enforce_pid_filter, valid_pids) ==
    enforce_pid_filter => extract_pid_from_s3_key(obj.Key) # NoPid

\* The allowlist filter of the loop over the listed objects.
PassesPidFilter(obj, enforce_pid_filter, valid_pids) ==
    enforce_pid_filter =>
        /\ extract_pid_from_s3_key(obj.Key) # NoPid
        /\ extract_pid_from_s3_key(obj.Key) \in valid_pids

\* The loop "for obj in page['Contents']": the assets in the order of the
\* listing, and filtered_count.
ScanObjects(objects, enforce_pid_filter, valid_pids) ==
    LET Kept(obj) ==
            /\ AllowedExtension(obj.Key)
            /\ PassesPidFilter(obj, enforce_pid_filter, valid_pids)
        kept == SelectSeq(objects, Kept)
    IN  [assets |-> [i \in DOMAIN kept |-> ListedAsset(kept[i])],
         filtered_count |->
             Cardinality({ i \in DOMAIN objects :
                 /\ AllowedExtension(objects[i].Key)
                 /\ ~PassesPidFilter(objects[i], enforce_pid_filter,
                                     valid_pids) })]

\* What paginate() yields: the objects of the bucket, or ClientError.
Pages ==
    { [client_error |-> TRUE, objects |-> << >>] } \cup
    { [client_error |-> FALSE, objects |-> ListObjects(held)] :
        held \in { h \in SUBSET DOMAIN KeyOrder :
                     Cardinality(h) <= MaxObjects } }

NoListing ==
    [run |-> 0, enforce_pid_filter |-> TRUE, client_error |-> FALSE,
     objects |-> << >>,
     valid_pids |-> {}, from |-> "none", assets |-> << >>,
     filtered_count |-> 0]

S3Idle ==
    /\ s3_client = FALSE
    /\ valid_pids_cache = NoCache
    /\ listing = NoListing

\* list_training_assets_in_bucket: without a client the empty list is
\* returned at once; the allowlist is read before the bucket is listed, and
\* a ClientError of the listing returns the empty list, whatever was read
\* before it.
S3_List ==
    /\ listing.run < MaxListings
    /\ \E enforce_pid_filter \in BOOLEAN :
          IF ~s3_client
          THEN /\ listing' = [NoListing EXCEPT !.run = listing.run + 1,
                                 !.enforce_pid_filter = enforce_pid_filter]
               /\ UNCHANGED valid_pids_cache
          ELSE \E dbError \in
                      IF enforce_pid_filter /\ ~valid_pids_cache.loaded
                      THEN BOOLEAN ELSE {FALSE},
                  pages \in Pages :
                  LET got == IF enforce_pid_filter
                             THEN get_valid_pids_from_postgres(
                                      valid_pids_cache, documents, dbError)
                             ELSE [valid_pids |-> {},
                                   cache |-> valid_pids_cache,
                                   from |-> "none"]
                      scan == ScanObjects(pages.objects, enforce_pid_filter,
                                          got.valid_pids)
                  IN  /\ valid_pids_cache' = got.cache
                      /\ listing' =
                            [run |-> listing.run + 1,
                             enforce_pid_filter |-> enforce_pid_filter,
                             client_error |-> pages.client_error,
                             objects |-> pages.objects,
                             valid_pids |-> got.valid_pids,
                             from |-> got.from,
                             assets |-> scan.assets,
                             filtered_count |-> scan.filtered_count]
    /\ UNCHANGED <<dbVars, scriptVars, svcVars, clsVars, repVars, s3_client,
                   triggers, scripts, pdfVars, extraVars>>

(***************************************************************************)
(* The sync triggers of the API: POST /authorities/scheduled and           *)
(* /authorities/manual write the sync_log row of the run and hand the run  *)
(* to a background task.                                                   *)
(***************************************************************************)
\* The routes: sync_type and triggered_by of the row each of them starts.
TriggerRoutes ==
    { [sync_type |-> "scheduled", triggered_by |-> "cron"],
      [sync_type |-> "incremental", triggered_by |-> "manual_api"],
      [sync_type |-> "full", triggered_by |-> "manual_api"] }

\* INSERT INTO sync_log (sync_id, sync_type, sync_source, status,
\* triggered_by) VALUES (..., 'graphql_ddr_archive', 'running', ...)
ServiceRunningRow(id, route) ==
    [sync_id |-> id,
     sync_type |-> route.sync_type,
     sync_source |-> "graphql_ddr_archive",
     status |-> "running",
     triggered_by |-> route.triggered_by,
     records_new |-> 0,
     records_updated |-> 0,
     records_failed |-> 0,
     error_log |-> Null]

\* SELECT complete_sync(:sync_id, :records_new, :records_updated,
\* :records_failed, :status)
ServiceCompleteSync(rows, id, new, updated, failed, status) ==
    [i \in DOMAIN rows |->
        IF rows[i].sync_id = id
        THEN [rows[i] EXCEPT !.records_new = new,
                             !.records_updated = updated,
                             !.records_failed = failed,
                             !.status = status]
        ELSE rows[i]]

IdleTrigger == [pc |-> "idle", sync_id |-> << >>]

TriggerIdle == triggers = [c \in Callers |-> IdleTrigger]

\* scheduled_authority_sync / manual_authority_sync: start_sync_log inserts
\* the row and commits; when that raises it rolls back and returns an id of
\* the form sync_error_...; the task is queued with the id either way.
Trigger_Start(c) ==
    /\ triggers[c].pc = "idle"
    /\ nextUuid <= MaxTriggers
    /\ \E route \in TriggerRoutes, dbError \in BOOLEAN :
          LET id == IF dbError THEN <<"sync_error_", nextUuid>>
                    ELSE <<"sync_", nextUuid>>
          IN  /\ sync_log' = IF dbError THEN sync_log
                             ELSE Append(sync_log,
                                         ServiceRunningRow(id, route))
              /\ triggers' = [triggers EXCEPT ![c] =
                                 [pc |-> "task", sync_id |-> id]]
    /\ nextUuid' = nextUuid + 1
    /\ UNCHANGED <<documents, scriptVars, calls, clsVars, repVars, s3Vars,
                   scripts, pdfVars, extraVars>>

\* run_graphql_sync, the background task: complete_sync_log marks the row
\* 'completed' with the counters of the run; when it raises it rolls back
\* and logs.
Trigger_Task(c) ==
    /\ triggers[c].pc = "task"
    /\ \E dbError \in BOOLEAN :
          sync_log' = IF dbError THEN sync_log
                      ELSE ServiceCompleteSync(sync_log, triggers[c].sync_id,
                                               0, 0, 0, "completed")
    /\ triggers' = [triggers EXCEPT ![c] = IdleTrigger]
    /\ UNCHANGED <<documents, scriptVars, svcVars, clsVars, repVars, s3Vars,
                   scripts, pdfVars, extraVars>>

(***************************************************************************)
(* The remote script of sync_parent_pids.py run by several operators at    *)
(* the same time.  Each script has a connection of its own, and the loop   *)
(* over its records runs in one transaction of that connection.  The       *)
(* database runs the transactions at its default isolation level: a        *)
(* SELECT sees the committed rows and the rows of its own transaction, an  *)
(* INSERT of a pid that an open transaction has inserted waits until that  *)
(* transaction ends, and of two transactions that wait for each other the  *)
(* database ends the statement of one with an error.                       *)
(***************************************************************************)
Operators == 1 .. NumOperators

\* What analyze_parent_records handed to the scripts.
ScriptBatches ==
    { b \in Batches({ ParentRecord(rec, 0) :
                        rec \in { a \in ArchiveRecords : a.pid # NoPid } },
                    MaxBatch) : b # << >> }

IdleScript ==
    [pc |-> "start", parent_records |-> << >>, idx |-> 1,
     existing |-> FALSE,
     records_new |-> 0, records_updated |-> 0, records_failed |-> 0,
     pids_processed |-> << >>, pids_failed |-> << >>, inserted |-> << >>,
     tx_inserts |-> << >>, tx_updates |-> << >>, aborted |-> FALSE]

ScriptsIdle == scripts = [o \in Operators |-> IdleScript]

\* The loop moves on to its next record, or to conn.commit().
NextRecord(script) ==
    [script EXCEPT !.idx = @ + 1,
                   !.pc = IF script.idx + 1 > Len(script.parent_records)
                          THEN "commit" ELSE "select"]

\* except Exception: records_failed += 1; pids_failed.append(pid).  The
\* statement that raised has put the transaction in the failed state.
RecordFailed(script) ==
    NextRecord([script EXCEPT
        !.records_failed = @ + 1,
        !.pids_failed = Append(@, script.parent_records[script.idx].pid),
        !.aborted = TRUE])

\* The rows of a transaction's own inserts, and the pids of those rows.
InsertedPids(script) ==
    { script.tx_inserts[k].pid : k \in DOMAIN script.tx_inserts }

\* Another open transaction has inserted pid.
PendingElsewhere(o, pid) ==
    \E q \in Operators \ {o} :
        /\ scripts[q].pc \in {"select", "write", "commit"}
        /\ pid \in InsertedPids(scripts[q])

\* The INSERT of o waits for the end of another transaction.
Waits(o) ==
    /\ scripts[o].pc = "write"
    /\ ~scripts[o].existing
    /\ PendingElsewhere(o,
           scripts[o].parent_records[scripts[o].idx].pid)

\* o waits for a transaction that waits for o.
Deadlocked(o) ==
    /\ Waits(o)
    /\ \E q \in Operators \ {o} :
          /\ Waits(q)
          /\ scripts[o].parent_records[scripts[o].idx].pid
                 \in InsertedPids(scripts[q])
          /\ scripts[q].parent_records[scripts[q].idx].pid
                 \in InsertedPids(scripts[o])

\* The script is started with the records main transferred; the sync_log
\* row is written and the counters are initialised.
Race_Start(o) ==
    /\ scripts[o].pc = "start"
    /\ \E b \in ScriptBatches :
          scripts' = [scripts EXCEPT ![o] =
                         [IdleScript EXCEPT !.pc = "select",
                                            !.parent_records = b]]
    /\ UNCHANGED <<dbVars, scriptVars, svcVars, clsVars, repVars, s3Vars,
                   triggers, pdfVars, extraVars>>

\* cursor.execute("SELECT pid FROM documents WHERE pid = %s"); fetchone().
\* In a failed transaction the statement raises.
Race_Select(o) ==
    /\ scripts[o].pc = "select"
    /\ LET script == scripts[o]
           pid == script.parent_records[script.idx].pid
       IN  scripts' = [scripts EXCEPT ![o] =
               IF script.aborted THEN RecordFailed(script)
               ELSE [script EXCEPT
                        !.pc = "write",
                        !.existing = \/ SelectPid(documents, pid)
                                     \/ pid \in InsertedPids(script)]]
    /\ UNCHANGED <<dbVars, scriptVars, svcVars, clsVars, repVars, s3Vars,
                   triggers, pdfVars, extraVars>>

\* The UPDATE or the INSERT of the record, with the counter and the list
\* that follow it.  dbError is the database rejecting the statement.
Race_Write(o) ==
    /\ scripts[o].pc = "write"
    /\ Waits(o) => Deadlocked(o)
    /\ LET script == scripts[o]
           rec == script.parent_records[script.idx]
           row == NewDocument(rec, o)
       IN  \E dbError \in BOOLEAN :
              scripts' = [scripts EXCEPT ![o] =
                  IF dbError \/ Waits(o)
                     \/ (~script.existing /\ UniqueViolation(documents, row))
                  THEN RecordFailed(script)
                  ELSE IF script.existing
                  THEN NextRecord([script EXCEPT
                           !.tx_updates = Append(@, rec),
                           !.records_updated = @ + 1,
                           !.pids_processed = Append(@, rec.pid)])
                  ELSE NextRecord([script EXCEPT
                           !.tx_inserts = Append(@, row),
                           !.records_new = @ + 1,
                           !.inserted = Append(@, rec.pid),
                           !.pids_processed = Append(@, rec.pid)])]
    /\ UNCHANGED <<dbVars, scriptVars, svcVars, clsVars, repVars, s3Vars,
                   triggers, pdfVars, extraVars>>

RECURSIVE ApplyUpdates(_, _, _)
ApplyUpdates(rows, recs, now) ==
    IF recs = << >> THEN rows
    ELSE ApplyUpdates(UpdateWherePid(rows, Head(recs), now), Tail(recs), now)

\* conn.commit() after the loop: the writes of the transaction become
\* visible, or, in a failed transaction, are rolled back.
Race_Commit(o) ==
    /\ scripts[o].pc = "commit"
    /\ documents' =
          IF scripts[o].aborted THEN documents
          ELSE ApplyUpdates(documents, scripts[o].tx_updates, o)
                   \o scripts[o].tx_inserts
    /\ scripts' = [scripts EXCEPT ![o] =
                      [@ EXCEPT !.pc = "done", !.tx_inserts = << >>,
                                !.tx_updates = << >>]]
    /\ UNCHANGED <<sync_log, scriptVars, svcVars, clsVars, repVars, s3Vars,
                   triggers, pdfVars, extraVars>>

(***************************************************************************)
(* S3SyncService.process_pdf: the documents row of an asset, its chunks    *)
(* and its processing_status.                                              *)
(***************************************************************************)
\* The assets process_pdf is called with: what a listing with or without
\* the pid filter returns for an object of the bucket.
PdfInfos ==
    { ListedAsset(obj) : obj \in { o \in BucketObjects :
                                     AllowedExtension(o.Key) } }

\* doc = Document(..., processing_status='processing')
S3Document(uuid, pdf_info) ==
    [document_id |-> <<"doc_", uuid>>,
     pid |-> pdf_info.pid,
     title |-> pdf_info.filename,
     publication_year |-> IF pdf_info.publication_year = 0 THEN DefaultYear
                          ELSE pdf_info.publication_year,
     filename |-> pdf_info.filename,
     file_type |-> IF Lower(pdf_info.key[Len(pdf_info.key)]) = "pdf"
                   THEN "application/pdf"
                   ELSE IF Lower(pdf_info.key[Len(pdf_info.key)])
                               \in {"tiff", "tif"}
                   THEN "image/tiff"
                   ELSE "application/octet-stream",
     s3_key |-> pdf_info.key,
     file_size_bytes |-> pdf_info.size,
     processing_status |-> "processing",
     processing_error |-> Null]

\* db.query(Document).filter(Document.s3_key == pdf_info['key']).first()
SelectS3Key(rows, key) == { i \in DOMAIN rows : rows[i].s3_key = key }

\* doc.processing_status = status; db.commit()
SetStatus(rows, document_id, status, error) ==
    [i \in DOMAIN rows |->
        IF rows[i].document_id = document_id
        THEN [rows[i] EXCEPT !.processing_status = status,
                             !.processing_error = error]
        ELSE rows[i]]

\* except Exception: the row of document_id is marked 'failed'.
MarkFailed(rows, document_id, error) ==
    SetStatus(rows, document_id, "failed", error)

\* DocumentChunk(chunk_id=f"{document_id}_chunk_{idx}", ...) for the chunks
\* whose embedding is not empty.
ChunkRows(document_id, embedded) ==
    { [chunk_id |-> <<document_id, "_chunk_", k>>,
       document_id |-> document_id,
       chunk_index |-> k] : k \in embedded }

\* The documents tables the /sync/graphql route left, the s3_key of a row,
\* the URL of its master file, written as a key of one word.
PdfStores ==
    { [k \in DOMAIN rows |-> [rows[k] EXCEPT !.s3_key = <<rows[k].s3_key>>]] :
        rows \in PersistedStores }

IdlePdf ==
    [pc |-> "idle", calls |-> 0, pdf_info |-> << >>, document_id |-> << >>,
     returned |-> << >>]

PdfIdle ==
    /\ pdf_call = IdlePdf
    /\ document_chunks = {}

\* process_pdf up to "await self.docling.process_pdf(temp_path)": the check
\* of the pid, the lookup of the s3_key, and the insert of the row with
\* status 'processing'.  When the commit of the insert raises (dbError, or
\* a unique document_id or pid that is taken) the except branch queries
\* through the session whose flush has failed, which raises again: the call
\* ends with an exception and no row.
Pdf_Begin ==
    /\ pdf_call.pc \in {"idle", "returned", "raised"}
    /\ pdf_call.calls < MaxCalls
    /\ \E pdf_info \in PdfInfos, dbError \in BOOLEAN :
          LET doc == S3Document(nextUuid, pdf_info)
              existing == SelectS3Key(documents, pdf_info.key)
              call == [pdf_call EXCEPT !.calls = @ + 1, !.pdf_info = pdf_info,
                                  !.document_id = << >>,
                                  !.returned = << >>]
          IN  IF pdf_info.pid = NoPid
              THEN /\ pdf_call' = [call EXCEPT !.pc = "returned"]
                   /\ UNCHANGED <<documents, nextUuid>>
              ELSE IF existing # {}
              THEN /\ pdf_call' = [call EXCEPT
                                 !.pc = "returned",
                                 !.returned =
                                     documents[CHOOSE i \in existing :
                                         \A j \in existing : i <= j]
                                         .document_id]
                   /\ UNCHANGED <<documents, nextUuid>>
              ELSE /\ nextUuid' = nextUuid + 1
                   /\ IF dbError \/ UniqueViolation(documents, doc)
                      THEN /\ pdf_call' = [call EXCEPT
                                         !.pc = "raised",
                                         !.document_id = doc.document_id]
                           /\ UNCHANGED documents
                      ELSE /\ pdf_call' = [call EXCEPT
                                         !.pc = "docling",
                                         !.document_id = doc.document_id]
                           /\ documents' = Append(documents, doc)
    /\ UNCHANGED <<sync_log, scriptVars, calls, clsVars, repVars, s3Vars,
                   triggers, scripts, document_chunks, extraVars>>

\* process_pdf from the result of Docling on: status 'failed' of the
\* extraction, an exception of the chunking or of the embeddings, the
\* chunks with an embedding, and the commits.  A commit that raises leaves
\* the session unusable until rollback(): the query of the except branch
\* raises and the call ends with the row as the last commit left it.
Pdf_Finish ==
    /\ pdf_call.pc = "docling"
    /\ \E extraction \in {"ok", "failed"}, exception \in BOOLEAN,
          embedded \in SUBSET (0 .. MaxChunks - 1), commitError \in BOOLEAN :
          IF commitError
          THEN /\ pdf_call' = [pdf_call EXCEPT !.pc = "raised"]
               /\ UNCHANGED <<documents, document_chunks>>
          ELSE IF extraction = "failed"
          THEN /\ documents' = SetStatus(documents, pdf_call.document_id,
                                         "failed", "error")
               /\ pdf_call' = [pdf_call EXCEPT !.pc = "returned"]
               /\ UNCHANGED document_chunks
          ELSE IF exception
          THEN /\ documents' = MarkFailed(documents, pdf_call.document_id,
                                          "error")
               /\ pdf_call' = [pdf_call EXCEPT !.pc = "returned"]
               /\ UNCHANGED document_chunks
          ELSE /\ documents' = SetStatus(documents, pdf_call.document_id,
                                         "completed", Null)
               /\ document_chunks' =
                     document_chunks \cup ChunkRows(pdf_call.document_id, embedded)
               /\ pdf_call' = [pdf_call EXCEPT !.pc = "returned",
                                     !.returned = pdf_call.document_id]
    /\ UNCHANGED <<sync_log, scriptVars, svcVars, clsVars, repVars, s3Vars,
                   triggers, scripts, extraVars>>

(***************************************************************************)
(* sync_all_authorities and sync_authority: the upserts of the items of    *)
(* one authority type in one transaction of the session, and its commit.   *)
(***************************************************************************)
\* Two of the eleven entries of AUTHORITY_DEFINITIONS, one per category.
AUTHORITY_DEFINITIONS ==
    << [authority_type |-> "ref_fonds", category |-> "core"],
       [authority_type |-> "ref_methodology", category |-> "critical"] >>

\* item.get(id_field): None when the item has no value for the field.
AuthorityIdValues == {Null, "", "a1", "a2"}

AuthorityItems ==
    [id : AuthorityIdValues, label : {"l1", "l2"}]

\* What fetch_authority_data returns: the list of the response, or [] on
\* any error of the request.
AuthorityData ==
    UNION { [1 .. n -> AuthorityItems] : n \in 0 .. MaxAuthItems }

\* str(item.get(id_field)): str(None) is the string 'None'.
Str(v) == IF v = Null THEN "None" ELSE v

\* INSERT INTO database_authorities ... ON CONFLICT (authority_type,
\* authority_id) DO UPDATE SET label = EXCLUDED.label, ...
UpsertAuthority(rows, type, id, label) ==
    { r \in rows : ~(r.authority_type = type /\ r.authority_id = id) }
        \cup { [authority_type |-> type, authority_id |-> id,
                label |-> label] }

IdleAuthority ==
    [pc |-> "idle", type |-> 0, data |-> << >>, i |-> 0, synced_count |-> 0,
     tx |-> {}, aborted |-> FALSE, log |-> << >>, persisted |-> {},
     returned |-> Null, total_synced |-> 0, core_count |-> 0,
     critical_count |-> 0]

AuthIdle ==
    /\ database_authorities = {}
    /\ authority_run = IdleAuthority

\* sync_all_authorities: db = LocalSessionLocal() and the counters.
Auth_Start ==
    /\ authority_run.pc = "idle"
    /\ authority_run' = [authority_run EXCEPT !.pc = "fetch", !.type = 1]
    /\ UNCHANGED <<dbVars, scriptVars, svcVars, clsVars, repVars, s3Vars,
                   triggers, scripts, pdfVars, database_authorities,
                   chunk_call>>

\* The loop of sync_all_authorities after sync_authority returned count:
\* the counters of the category, and the next authority type.
AfterAuthority(run, count) ==
    LET config == AUTHORITY_DEFINITIONS[run.type]
    IN  [run EXCEPT
            !.returned = count,
            !.total_synced = @ + count,
            !.core_count = IF config.category = "core" THEN @ + count ELSE @,
            !.critical_count =
                IF config.category = "core" THEN @ ELSE @ + count,
            !.pc = IF run.type < Len(AUTHORITY_DEFINITIONS)
                   THEN "fetch" ELSE "done",
            !.type = IF run.type < Len(AUTHORITY_DEFINITIONS)
                     THEN @ + 1 ELSE @]

\* sync_authority up to the loop: fetch_authority_data, and "return 0"
\* when there is no data.
Auth_Fetch ==
    /\ authority_run.pc = "fetch"
    /\ \E fetched \in AuthorityData :
          LET run == [authority_run EXCEPT
                         !.data = fetched, !.i = 1, !.synced_count = 0,
                         !.tx = database_authorities, !.aborted = FALSE,
                         !.log = << >>, !.persisted = {}]
          IN  authority_run' =
                  IF fetched = << >> THEN AfterAuthority(run, 0)
                  ELSE [run EXCEPT !.pc = "loop"]
    /\ UNCHANGED <<dbVars, scriptVars, svcVars, clsVars, repVars, s3Vars,
                   triggers, scripts, pdfVars, database_authorities,
                   chunk_call>>

\* One iteration of "for item in data": the item is skipped when its
\* authority_id is the empty string; else db.execute of the upsert.  The
\* statement can fail before it is sent (unsent: a parameter the driver
\* cannot adapt) or be rejected by the server (rejected), which puts the
\* transaction in the failed state: every later statement of it is
\* rejected too.
Auth_Item ==
    /\ authority_run.pc = "loop"
    /\ authority_run.i <= Len(authority_run.data)
    /\ \E outcome \in {"ok", "unsent", "rejected"} :
          LET item == authority_run.data[authority_run.i]
              authority_id == Str(item.id)
              type == AUTHORITY_DEFINITIONS[authority_run.type]
                          .authority_type
              step == [authority_run EXCEPT !.i = @ + 1]
          IN  authority_run' =
                  IF authority_id = ""
                  THEN [step EXCEPT !.log = Append(@, "skipped")]
                  ELSE IF authority_run.aborted \/ outcome = "unsent"
                  THEN [step EXCEPT !.log = Append(@, "failed")]
                  ELSE IF outcome = "rejected"
                  THEN [step EXCEPT !.log = Append(@, "failed"),
                                    !.aborted = TRUE]
                  ELSE [step EXCEPT
                           !.log = Append(@, "executed"),
                           !.synced_count = @ + 1,
                           !.tx = UpsertAuthority(@, type, authority_id,
                                                  item.label)]
    /\ UNCHANGED <<dbVars, scriptVars, svcVars, clsVars, repVars, s3Vars,
                   triggers, scripts, pdfVars, database_authorities,
                   chunk_call>>

\* db.commit() after the loop and "return synced_count".  COMMIT of a
\* transaction in the failed state is a rollback and raises nothing; a
\* commit that raises ends sync_all_authorities with db.rollback(); raise.
Auth_Commit ==
    /\ authority_run.pc = "loop"
    /\ authority_run.i > Len(authority_run.data)
    /\ \E commitError \in BOOLEAN :
          IF commitError
          THEN /\ authority_run' = [authority_run EXCEPT !.pc = "raised"]
               /\ UNCHANGED database_authorities
          ELSE /\ database_authorities' =
                     IF authority_run.aborted THEN database_authorities
                     ELSE authority_run.tx
               /\ authority_run' =
                     AfterAuthority(
                         [authority_run EXCEPT
                             !.persisted =
                                 IF authority_run.aborted THEN {}
                                 ELSE { k \in DOMAIN authority_run.log :
                                          authority_run.log[k] = "executed" }],
                         authority_run.synced_count)
    /\ UNCHANGED <<dbVars, scriptVars, svcVars, clsVars, repVars, s3Vars,
                   triggers, scripts, pdfVars, chunk_call>>

(***************************************************************************)
(* DoclingProcessor.chunk_text: the loop that cuts a text into chunks.     *)
(***************************************************************************)
\* The texts: a text of n characters is written as the sequence of its
\* character positions, so that a chunk tells which characters it holds.
Texts == { [p \in 1 .. n |-> p] : n \in 0 .. MaxText }

ChunkSizes == 0 .. MaxChunkSize
Overlaps == -1 .. MaxChunkSize

\* A slice bound of Python: a negative bound counts from the end, and
\* bounds beyond the text are clipped.
SliceBound(x, n) ==
    IF x < 0 THEN (IF x + n < 0 THEN 0 ELSE x + n)
    ELSE IF x > n THEN n ELSE x

\* text[start:end]
Slice(text, start, end) ==
    LET lo == SliceBound(start, Len(text))
        hi == SliceBound(end, Len(text))
    IN  IF lo < hi THEN SubSeq(text, lo + 1, hi) ELSE << >>

IdleChunk ==
    [pc |-> "idle", text |-> << >>, chunk_size |-> 0, overlap |-> 0,
     start |-> 0, chunks |-> << >>]

ChunkIdle == chunk_call = IdleChunk

\* chunk_text(text, chunk_size, overlap): "if not text: return []", else
\* chunks = [] and start = 0.
Chunk_Call ==
    /\ chunk_call.pc \in {"idle", "returned"}
    /\ \E text \in Texts, chunk_size \in ChunkSizes, overlap \in Overlaps :
          chunk_call' =
              [pc |-> IF text = << >> THEN "returned" ELSE "loop",
               text |-> text, chunk_size |-> chunk_size,
               overlap |-> overlap, start |-> 0, chunks |-> << >>]
    /\ UNCHANGED <<dbVars, scriptVars, svcVars, clsVars, repVars, s3Vars,
                   triggers, scripts, pdfVars, authVars>>

\* One iteration of "while start < len(text)".  The list of chunks is
\* followed for MaxIterations iterations.
Chunk_Iterate ==
    /\ chunk_call.pc = "loop"
    /\ chunk_call.start < Len(chunk_call.text)
    /\ Len(chunk_call.chunks) < MaxIterations
    /\ LET end == chunk_call.start + chunk_call.chunk_size
           chunk == Slice(chunk_call.text, chunk_call.start, end)
       IN  chunk_call' = [chunk_call EXCEPT
                             !.chunks = Append(@, chunk),
                             !.start = end - chunk_call.overlap]
    /\ UNCHANGED <<dbVars, scriptVars, svcVars, clsVars, repVars, s3Vars,
                   triggers, scripts, pdfVars, authVars>>

\* The loop condition is false: return chunks.
Chunk_Return ==
    /\ chunk_call.pc = "loop"
    /\ chunk_call.start >= Len(chunk_call.text)
    /\ chunk_call' = [chunk_call EXCEPT !.pc = "returned"]
    /\ UNCHANGED <<dbVars, scriptVars, svcVars, clsVars, repVars, s3Vars,
                   triggers, scripts, pdfVars, authVars>>

BackendIdle ==
    S3Idle /\ TriggerIdle /\ ScriptsIdle /\ PdfIdle /\ AuthIdle /\ ChunkIdle

(***************************************************************************)
(* Specifications.                                                         *)
(***************************************************************************)
Init ==
    DbInit /\ ScriptInit /\ ServiceIdle /\ ClassifyIdle /\ ReportIdle
        /\ BackendIdle

Next ==
    \/ Main_Fetch
    \/ Main_Analyze
    \/ Sync_Transfer
    \/ Remote_StartSyncLog
    \/ Remote_ProcessRecord
    \/ Remote_Commit
    \/ Remote_CompleteSyncLog
    \/ NextRun

Spec == Init /\ [][Next]_vars

ServiceNext ==
    \E c \in Callers :
        \/ Bulk_Begin(c)
        \/ Bulk_Item(c)
        \/ Bulk_Insert(c)

SpecService == Init /\ [][ServiceNext]_vars

ClassifyStart ==
    DbInit /\ ScriptInit /\ ServiceIdle /\ ClassifyInit /\ ReportIdle
        /\ BackendIdle

ClassifyNext ==
    \/ Classify_QuickSync
    \/ Classify_AnalyzeParent
    \/ Classify_AnalyzeRecords
    \/ Classify_MediaCounts
    \/ Classify_Parse

SpecClassify == ClassifyStart /\ [][ClassifyNext]_vars

\* The rows a run of sync_parent_pids.py that ended with exit status 0 has
\* committed, at an earlier reading of the clock.
ParentStores ==
    { [k \in DOMAIN b |-> NewDocument(ParentRecord(b[k], 0), 0)] :
        b \in Batches({ r \in ArchiveRecords : r.pid # NoPid }, MaxBatch) }

\* quick_sync_pids.py run, once or more, against a table sync_parent_pids.py
\* filled.
QuickStart ==
    /\ documents \in ParentStores
    /\ sync_log = << >>
    /\ ScriptInit
    /\ ServiceIdle
    /\ ClassifyIdle
    /\ ReportIdle
    /\ BackendIdle

QuickNext ==
    \/ Quick_Fetch
    \/ Quick_Record
    \/ Quick_Done
    \/ NextRun

SpecQuick == QuickStart /\ [][QuickNext]_vars

ResyncNext ==
    \/ Resync_Begin
    \/ Bulk_Item(1)
    \/ Bulk_Insert(1)

SpecResync == Init /\ [][ResyncNext]_vars

\* The read-only operations against a documents table earlier requests
\* filled.
ReportStart ==
    /\ documents \in PersistedStores
    /\ sync_log = << >>
    /\ ScriptInit
    /\ calls = [c \in Callers |-> IdleCall]
    /\ nextUuid = Len(documents) + 1
    /\ ClassifyIdle
    /\ ReportIdle
    /\ BackendIdle

ReportNext ==
    \/ Report_Validate
    \/ Report_Parse

SpecReport == ReportStart /\ [][ReportNext]_vars

\* The S3 service of a backend started on a documents table earlier
\* requests filled.
S3Start ==
    /\ documents \in PersistedStores
    /\ sync_log = << >>
    /\ ScriptInit
    /\ calls = [c \in Callers |-> IdleCall]
    /\ nextUuid = Len(documents) + 1
    /\ ClassifyIdle
    /\ ReportIdle
    /\ s3_client \in BOOLEAN
    /\ valid_pids_cache = NoCache
    /\ listing = NoListing
    /\ TriggerIdle
    /\ ScriptsIdle
    /\ PdfIdle
    /\ AuthIdle
    /\ ChunkIdle

S3Next == S3_List

SpecS3 == S3Start /\ [][S3Next]_vars

\* The S3 service of a backend whose /sync/graphql route fills the table
\* between the listings.
S3RunsStart ==
    /\ DbInit
    /\ ScriptInit
    /\ ServiceIdle
    /\ ClassifyIdle
    /\ ReportIdle
    /\ s3_client = TRUE
    /\ valid_pids_cache = NoCache
    /\ listing = NoListing
    /\ TriggerIdle
    /\ ScriptsIdle
    /\ PdfIdle
    /\ AuthIdle
    /\ ChunkIdle

\* A request to /sync/graphql that carries one media item.
S3Runs_Request == Resync_Begin /\ Len(request') = 1

S3RunsNext ==
    \/ S3_List
    \/ S3Runs_Request
    \/ Bulk_Item(1)
    \/ Bulk_Insert(1)

SpecS3Runs == S3RunsStart /\ [][S3RunsNext]_vars

\* The sync triggers under requests served at the same time.
TriggerNext ==
    \E c \in Callers :
        \/ Trigger_Start(c)
        \/ Trigger_Task(c)

SpecTrigger == Init /\ [][TriggerNext]_vars

\* The remote script run by several operators at the same time.
RaceNext ==
    \E o \in Operators :
        \/ Race_Start(o)
        \/ Race_Select(o)
        \/ Race_Write(o)
        \/ Race_Commit(o)

SpecRace == Init /\ [][RaceNext]_vars

\* process_pdf called for one asset after the other, on a documents table
\* earlier requests filled.
PdfStart ==
    /\ documents \in PdfStores
    /\ sync_log = << >>
    /\ ScriptInit
    /\ calls = [c \in Callers |-> IdleCall]
    /\ nextUuid = Len(documents) + 1
    /\ ClassifyIdle
    /\ ReportIdle
    /\ BackendIdle

PdfNext ==
    \/ Pdf_Begin
    \/ Pdf_Finish

SpecPdf == PdfStart /\ [][PdfNext]_vars

\* sync_all_authorities on an empty table database_authorities.
AuthNext ==
    \/ Auth_Start
    \/ Auth_Fetch
    \/ Auth_Item
    \/ Auth_Commit

SpecAuth == Init /\ [][AuthNext]_vars

\* Calls of chunk_text, one after the other.
ChunkNext ==
    \/ Chunk_Call
    \/ Chunk_Iterate
    \/ Chunk_Return

SpecChunk == Init /\ [][ChunkNext]_vars

(***************************************************************************)
(* Properties of the script orchestrator (specification Spec).             *)
(***************************************************************************)
SyncRowsOf(id) == { i \in DOMAIN sync_log : sync_log[i].sync_id = id }

RunHasStatus(id, status) ==
    \E i \in SyncRowsOf(id) : sync_log[i].status = status

\* A document row without the fields that record when and how often it was
\* synced.
Stable(row) ==
    [document_id |-> row.document_id,
     pid |-> row.pid,
     title |-> row.title,
     publication_year |-> row.publication_year,
     filename |-> row.filename,
     pdf_count |-> row.pdf_count,
     tiff_count |-> row.tiff_count,
     media_count |-> row.doc_metadata.media_count,
     synced_from |-> row.doc_metadata.synced_from]

StableRows(rows) == [i \in DOMAIN rows |-> Stable(rows[i])]

\* The run that just ended and the run before it both ended with status
\* completed, and both fetched the same response.
SameBatchTwice ==
    /\ pc = "exit"
    /\ exit_code = "0"
    /\ runNo > 1
    /\ prevData = data
    /\ RunHasStatus(runNo - 1, "completed")
    /\ RunHasStatus(runNo, "completed")

\* C1 as stated: running the same fetch batch twice leaves exactly the
\* documents that running it once left, and the second run counts every
\* record as updated and none as new.
C1_SameStateAsOnce ==
    SameBatchTwice =>
        /\ documents = prevDocs
        /\ records_new = 0
        /\ records_updated = Len(parent_records)

\* C1 as amended: running the same fetch batch twice, both runs without a
\* failed record, leaves the documents that running it once left in every
\* field but sync_version (one higher per update of the row) and the sync
\* timestamps last_synced_at and synced_at; the second run counts every
\* record as updated and none as new.
C1_IdempotentUpToSyncStamp ==
    SameBatchTwice =>
        /\ StableRows(documents) = StableRows(prevDocs)
        /\ \A i \in DOMAIN documents :
              documents[i].sync_version =
                  prevDocs[i].sync_version
                      + Cardinality({ k \in DOMAIN parent_records :
                            parent_records[k].pid = documents[i].pid })
        /\ records_new = 0
        /\ records_updated = Len(parent_records)
        /\ RunHasStatus(runNo, "completed")

\* Two records were inserted by the first run and updated by the second.
C1_Witness ==
    /\ SameBatchTwice
    /\ Len(parent_records) = 2
    /\ Len(documents) = 2
    /\ \A i \in DOMAIN documents : documents[i].sync_version = 2
    /\ \E i \in DOMAIN documents : documents[i].pdf_count = 1

\* C3: every run that has ended wrote exactly one sync_log row, and that row
\* has been finalized.
C3_OneSyncRunPerRun ==
    pc = "exit" =>
        /\ Cardinality(SyncRowsOf(runNo)) = 1
        /\ \A i \in SyncRowsOf(runNo) :
              sync_log[i].sync_completed_at # NullTime

\* C4: no run that has ended leaves a sync_log row in status running.
C4_NoRunLeftRunning ==
    pc = "exit" =>
        \A i \in DOMAIN sync_log : sync_log[i].status # "running"

\* C5: when the fetch fails the run ends with a sync_log row of status failed
\* that carries the error, and no document is inserted or updated.
C5_FetchFailureFinalizedFailed ==
    (pc = "exit" /\ data = None) =>
        /\ \E i \in SyncRowsOf(runNo) :
              /\ sync_log[i].status = "failed"
              /\ sync_log[i].error_log # Null
        /\ documents = prevDocs

\* C6: the records a finalized run reports in pids_processed are persisted:
\* each has a committed row written by this run, whatever happened to the
\* other records of the batch.
C6_ProcessedArePersisted ==
    (pc = "exit" /\ exit_code = "0") =>
        \A k \in DOMAIN pids_processed :
            \E i \in DOMAIN documents :
                /\ documents[i].pid = pids_processed[k]
                /\ documents[i].last_synced_at = <<runNo>>

\* C7: the status of a finalized sync_log row is completed exactly when no
\* record failed and partial exactly when at least one did (also when all
\* did); failed is never the status of a run that reached persistence.
C7_StatusFunctionOfOutcome ==
    \A i \in DOMAIN sync_log :
        LET r == sync_log[i]
        IN  r.sync_completed_at # NullTime =>
                /\ r.status \in {"completed", "partial"}
                /\ r.status = "completed" <=> Len(r.pids_failed) = 0
                /\ r.status = "partial" <=> Len(r.pids_failed) > 0
                /\ r.records_failed = Len(r.pids_failed)

\* A run all of whose records failed was finalized as partial.
C7_Witness ==
    \E i \in DOMAIN sync_log :
        /\ sync_log[i].status = "partial"
        /\ sync_log[i].records_failed = 2
        /\ sync_log[i].pids_processed = << >>

EligibleFiles(v) == v.pdf_count + v.tiff_count + v.training_eligible

\* The master files of the item whose own filename maps to use_for_ml=true.
ApprovedMasters(m) ==
    Cardinality({ k \in DOMAIN m.pdf_files :
        /\ m.pdf_files[k].role = "pdf_master"
        /\ \E i \in DOMAIN m.digital_assets :
              /\ m.digital_assets[i].filename = m.pdf_files[k].filename
              /\ \A j \in DOMAIN m.digital_assets :
                    m.digital_assets[j].filename = m.pdf_files[k].filename
                        => j <= i
              /\ m.digital_assets[i].use_for_ml })

\* C8: fail closed: a media item without digital assets contributes no
\* training-eligible file to pdf_count, tiff_count or training_eligible.
C8_FailClosed ==
    (/\ verdict.by \in {"quick_sync_pids", "analyze_parent_records",
                        "parse_graphql_media_response"}
     /\ media.digital_assets = << >>)
        => EligibleFiles(verdict) = 0

\* C9: file-level isolation: the eligible count of a media item is the number
\* of its master files whose own filename maps to use_for_ml=true.
C9_FileLevelIsolation ==
    verdict.by \in {"quick_sync_pids", "analyze_parent_records",
                    "analyze_records"}
        => verdict.pdf_count = ApprovedMasters(media)

\* C10: a media item none of whose files has a master role contributes no
\* training-eligible file, whatever is flagged use_for_ml.
C10_OnlyMasterRoles ==
    (/\ verdict.by \in {"quick_sync_pids", "get_media_counts_for_pid",
                        "analyze_parent_records"}
     /\ \A i \in DOMAIN media.pdf_files :
           media.pdf_files[i].role # "pdf_master"
     /\ media.tiff_files = << >>)
        => EligibleFiles(verdict) = 0

(***************************************************************************)
(* Properties of the read-only operations (SpecReport).                    *)
(***************************************************************************)
\* The pids of the items of a response.
BatchPids(items) == { items[i].pid : i \in DOMAIN items } \ { NoPid }

\* C11: reconciliation partition completeness: the groups needs_sync,
\* already_synced and orphaned of a validation report are pairwise disjoint,
\* together hold every pid of the batch and of the documents table, and
\* orphaned is the persisted pids the batch does not list.
C11_PartitionComplete ==
    report.op = "validate" =>
        LET r == report.result
            B == BatchPids(request)
            P == get_training_corpus_pids(documents)
        IN  /\ r.needs_sync \cap r.already_synced = {}
            /\ r.needs_sync \cap r.orphaned = {}
            /\ r.already_synced \cap r.orphaned = {}
            /\ r.needs_sync \cup r.already_synced \cup r.orphaned = B \cup P
            /\ r.orphaned = P \ B

\* C12: a validation leaves the documents table as it found it, and every
\* pid it reports as orphaned is still persisted after it.
C12_ValidateLeavesStore ==
    [][ (report' # report \/ request' # request) =>
            /\ documents' = documents
            /\ report'.op = "validate" =>
                  \A p \in report'.result.orphaned : SelectPid(documents', p)
      ]_vars

\* A validation has reported a persisted pid as orphaned.
C12_Witness ==
    /\ report.op = "validate"
    /\ report.result.orphaned # {}
    /\ Len(documents) = 2
    /\ \A p \in report.result.orphaned : SelectPid(documents, p)

\* The number of entries of list that are x.
Occurrences(list, x) == Cardinality({ i \in DOMAIN list : list[i] = x })

\* C17: parse_graphql_media_response places every item that has a pid in
\* exactly one of training_eligible, jpg_only and no_media: in
\* training_eligible when it has a PDF or TIFF file, with type pdf when it
\* has a PDF and tiff otherwise, in jpg_only when it has JPG derivatives
\* only, in no_media when it has no file; the three counts add up to
\* total_items less the items without pid.
C17_ParseCategories ==
    report.op = "parse" =>
        LET r == report.result
            eligibleItems ==
                [i \in DOMAIN r.training_eligible |->
                    r.training_eligible[i].item]
            hasPdf(it) == it.pdf_files # << >>
            hasTiff(it) == it.tiff_files # << >>
            hasJpg(it) == it.jpg_derivatives # << >>
            noPid == Cardinality({ i \in DOMAIN request :
                                       request[i].pid = NoPid })
        IN  /\ \A i \in DOMAIN request :
                  LET it == request[i]
                      e == Occurrences(eligibleItems, it)
                      j == Occurrences(r.jpg_only, it)
                      n == Occurrences(r.no_media, it)
                  IN  IF it.pid = NoPid THEN e + j + n = 0
                      ELSE /\ e + j + n = 1
                           /\ e = 1 <=> (hasPdf(it) \/ hasTiff(it))
                           /\ j = 1 <=> (~hasPdf(it) /\ ~hasTiff(it)
                                            /\ hasJpg(it))
                           /\ n = 1 <=> (~hasPdf(it) /\ ~hasTiff(it)
                                            /\ ~hasJpg(it))
            /\ \A i \in DOMAIN r.training_eligible :
                  LET e == r.training_eligible[i]
                  IN  /\ e.type = (IF hasPdf(e.item) THEN "pdf" ELSE "tiff")
                      /\ e.master_files = (IF hasPdf(e.item)
                                           THEN e.item.pdf_files
                                           ELSE e.item.tiff_files)
            /\ r.total_items = Len(request)
            /\ r.training_eligible_count = Len(r.training_eligible)
            /\ r.jpg_only_count = Len(r.jpg_only)
            /\ r.no_media_count = Len(r.no_media)
            /\ r.training_eligible_count + r.jpg_only_count
                   + r.no_media_count = r.total_items - noPid

\* A response with an item that has both a PDF and a TIFF and an item
\* without pid has been parsed.
C17_Witness ==
    /\ report.op = "parse"
    /\ Len(request) = 2
    /\ \E i \in DOMAIN request :
          /\ request[i].pid # NoPid
          /\ request[i].pdf_files # << >>
          /\ request[i].tiff_files # << >>
    /\ \E i \in DOMAIN request : request[i].pid = NoPid
    /\ report.result.training_eligible_count = 1

(***************************************************************************)
(* Further properties of the script orchestrator (specification Spec).     *)
(***************************************************************************)
\* C13: no step of a sync run removes a pid from the documents table: every
\* pid persisted before the step is persisted after it, whether the batch
\* lists the pid or not and whether the run succeeds or not.
C13_NoHardDelete ==
    [][ \A i \in DOMAIN documents : SelectPid(documents', documents[i].pid)
      ]_vars

\* A second run has ended with exit status 0 on a batch that omits a pid the
\* first run persisted, and the pid is still there.
C13_Witness ==
    /\ pc = "exit"
    /\ exit_code = "0"
    /\ runNo = 2
    /\ records_updated = 1
    /\ \E i \in DOMAIN documents :
          /\ documents[i].sync_version = 1
          /\ \A k \in DOMAIN parent_records :
                parent_records[k].pid # documents[i].pid

\* The records of a response that carry no pid.
WithoutPid(d) ==
    IF d.kind # "data" THEN {}
    ELSE { k \in DOMAIN d.records_v1 : d.records_v1[k].pid = NoPid }

\* C14: a fetched record without pid is never persisted, does not stop the
\* run, and is counted: the records_new, records_updated and records_failed
\* of the finalized run account for every fetched record, the ones without
\* pid among the failed.
C14_NoPidCounted ==
    (pc = "exit" /\ exit_code = "0") =>
        /\ \A i \in DOMAIN documents : documents[i].pid # NoPid
        /\ Len(parent_records)
              = Len(data.records_v1) - Cardinality(WithoutPid(data))
        /\ \E i \in SyncRowsOf(runNo) :
              /\ sync_log[i].records_failed >= Cardinality(WithoutPid(data))
              /\ sync_log[i].records_new + sync_log[i].records_updated
                     + sync_log[i].records_failed = Len(data.records_v1)

(***************************************************************************)
(* Properties of quick_sync_pids.py (SpecQuick).                           *)
(***************************************************************************)
\* The rows whose sync_version a statement has set.
Versioned(rows) ==
    { i \in DOMAIN rows : "sync_version" \in DOMAIN rows[i] }

\* C15: sync_version is a monotonic counter: a step that updates a row adds
\* exactly one to its sync_version, a row inserted with a version starts at
\* 1, and no step lowers a version or updates a row without raising it.
C15_SyncVersionMonotonic ==
    [][ /\ \A i \in Versioned(documents) :
              /\ i \in Versioned(documents')
              /\ documents'[i].sync_version >= documents[i].sync_version
              /\ documents'[i] # documents[i] =>
                    documents'[i].sync_version
                        = documents[i].sync_version + 1
        /\ \A i \in Versioned(documents') \ DOMAIN documents :
              documents'[i].sync_version = 1
      ]_vars

(***************************************************************************)
(* Further properties of the service under concurrent requests             *)
(* (SpecService).                                                          *)
(***************************************************************************)
\* C16: no step of a bulk_sync_from_graphql_response call made with
\* dry_run=True changes the documents table, and the dry_run the call
\* returns in its statistics is the one it was given.
C16_DryRunLeavesStore ==
    [][ \A c \in Callers :
            /\ (calls'[c] # calls[c] /\ calls'[c].dry_run) =>
                  documents' = documents
            /\ calls[c].pc # "idle" => calls'[c].dry_run = calls[c].dry_run
      ]_vars

\* A dry run has returned with two items counted as synced and neither pid
\* persisted.
C16_Witness ==
    \E c \in Callers :
        /\ calls[c].dry_run
        /\ calls[c].pc = "done"
        /\ calls[c].synced_count = 2
        /\ \A i \in DOMAIN calls[c].eligible :
              ~SelectPid(documents, calls[c].eligible[i].item.pid)

(***************************************************************************)
(* Properties of requests served one after the other (SpecResync).         *)
(***************************************************************************)
\* The request has returned, was no dry run and counted no error.
Returned ==
    /\ calls[1].pc = "done"
    /\ served > 0
    /\ ~calls[1].dry_run
    /\ calls[1].error_count = 0

\* C18: after a sync run, an item of the batch that has a pid but no PDF or
\* TIFF master has a row in documents, with pdf_count = 0 and tiff_count = 0.
C18_ZeroEligibleCreated ==
    Returned =>
        \A i \in DOMAIN request :
            (/\ request[i].pid # NoPid
             /\ request[i].pdf_files = << >>
             /\ request[i].tiff_files = << >>)
                => \E k \in DOMAIN documents :
                      /\ documents[k].pid = request[i].pid
                      /\ "pdf_count" \in DOMAIN documents[k]
                      /\ documents[k].pdf_count = 0
                      /\ documents[k].tiff_count = 0

\* C19: after a sync run, the row of every pid the run processed carries the
\* title and the publication year derived from the batch record, whether
\* the pid was persisted before the run or not.
C19_UpdateInPlace ==
    Returned =>
        \A i \in DOMAIN calls[1].eligible :
            LET item == calls[1].eligible[i].item
            IN  \E k \in DOMAIN documents :
                    /\ documents[k].pid = item.pid
                    /\ documents[k].title = item.title
                    /\ documents[k].publication_year
                           = YearFromTitle(item.title)

(***************************************************************************)
(* The order of the phases of a script run (specification Spec).           *)
(***************************************************************************)
\* C20: a run writes its sync_log row with status running before it issues
\* the fetch, so the row exists in every state from the fetch on, and no row
\* of documents is written by a run whose sync_log row does not exist.
C20_SyncRunBeforeFetch ==
    /\ pc # "main" => SyncRowsOf(runNo) # {}
    /\ (\E i \in DOMAIN documents : documents[i].last_synced_at = <<runNo>>)
           => SyncRowsOf(runNo) # {}

(***************************************************************************)
(* The order of the validation report (SpecReport).                        *)
(***************************************************************************)
\* The place of pid in the batch, and in the answer of the query of the
\* persisted pids, which is ordered by pid.
BatchPlace(pid) == CHOOSE k \in DOMAIN request : request[k].pid = pid
PidPlace(pid) == CHOOSE k \in 1 .. 3 : <<"p1", "p2", "p3">>[k] = pid

\* C21: the report lists needs_sync and already_synced in the order of the
\* batch and orphaned in the order of the persisted pids, so that the same
\* batch and the same table always give the same three lists.
C21_ReportOrdered ==
    report.op = "validate" =>
        LET l == report.listed
        IN  /\ \A i, j \in DOMAIN l.needs_sync :
                  i < j => BatchPlace(l.needs_sync[i])
                               < BatchPlace(l.needs_sync[j])
            /\ \A i, j \in DOMAIN l.already_synced :
                  i < j => BatchPlace(l.already_synced[i])
                               < BatchPlace(l.already_synced[j])
            /\ \A i, j \in DOMAIN l.orphaned :
                  i < j => PidPlace(l.orphaned[i]) < PidPlace(l.orphaned[j])

(***************************************************************************)
(* Properties of the S3 service (SpecS3).                                  *)
(***************************************************************************)
PersistedPids == { documents[i].pid : i \in DOMAIN documents }

\* C22: a listing that enforces the pid filter, and whose reading of the
\* allowlist did not fail, filters with the pids persisted when it starts,
\* so that a pid an earlier run persisted is accepted by a later listing of
\* the same service.
C22_AllowlistPerRun ==
    [][(listing'.run = listing.run + 1 /\ s3_client
            /\ listing'.enforce_pid_filter /\ listing'.from # "error")
          => listing'.valid_pids = PersistedPids]_vars

ObjectPid(obj) == extract_pid_from_s3_key(obj.Key)
InAllowlist(obj) ==
    ObjectPid(obj) # NoPid /\ ObjectPid(obj) \in listing.valid_pids
ReturnedAsset(obj) ==
    \E i \in DOMAIN listing.assets : listing.assets[i].key = obj.Key

\* Every returned asset has a PDF/TIFF extension and a non-empty pid of the
\* allowlist.
OnlyAllowlistedAssets ==
    \A i \in DOMAIN listing.assets :
        /\ AllowedExtension(listing.assets[i].key)
        /\ listing.assets[i].pid # NoPid
        /\ listing.assets[i].pid \in listing.valid_pids
        /\ listing.assets[i].pid
               = extract_pid_from_s3_key(listing.assets[i].key)

RunningRows == { i \in DOMAIN sync_log : sync_log[i].status = "running" }

\* C23: sync runs are serialized: at no time does sync_log hold more than
\* one row with status 'running'.
C23_OneRunningRun == Cardinality(RunningRows) <= 1

(***************************************************************************)
(* The counters of a finalized script run (Spec).                          *)
(***************************************************************************)
SeqRange(q) == { q[k] : k \in DOMAIN q }

\* C26: in every finalized sync_log row records_new + records_updated is
\* the length of pids_processed and records_failed the length of
\* pids_failed, no pid is in both lists, and when the run ends every record
\* of its batch is in exactly one of the two lists of its row.
C26_CountersMatchPidLists ==
    /\ \A i \in DOMAIN sync_log :
          LET r == sync_log[i]
          IN  r.sync_completed_at # NullTime =>
                  /\ r.records_new + r.records_updated = Len(r.pids_processed)
                  /\ r.records_failed = Len(r.pids_failed)
                  /\ SeqRange(r.pids_processed) \cap SeqRange(r.pids_failed)
                         = {}
    /\ (pc = "exit" /\ exit_code = "0") =>
          \A i \in SyncRowsOf(sync_id) :
              LET r == sync_log[i]
              IN  \A k \in DOMAIN parent_records :
                      Cardinality(
                          { j \in DOMAIN r.pids_processed :
                              r.pids_processed[j] = parent_records[k].pid }
                          \cup
                          { Len(r.pids_processed) + j :
                              j \in { n \in DOMAIN r.pids_failed :
                                  r.pids_failed[n] = parent_records[k].pid } })
                          = 1

\* A run was finalized whose first record was persisted and whose second
\* record failed.
C26_Witness ==
    /\ pc = "exit"
    /\ exit_code = "0"
    /\ \E i \in SyncRowsOf(sync_id) :
          /\ Len(sync_log[i].pids_processed) = 1
          /\ Len(sync_log[i].pids_failed) = 1
          /\ sync_log[i].records_new + sync_log[i].records_updated = 1

(***************************************************************************)
(* The statistics of bulk_sync_from_graphql_response (SpecService).        *)
(***************************************************************************)
\* The next item of the call of c has master files and a pid that is
\* persisted.
AtPersistedItem(c) ==
    /\ calls[c].pc = "item"
    /\ calls[c].eligible[calls[c].i].master_files # << >>
    /\ calls[c].eligible[calls[c].i].item.pid # NoPid
    /\ SelectPid(documents, calls[c].eligible[calls[c].i].item.pid)

\* C27: the statistics a call returns satisfy synced + skipped + errors =
\* training_eligible whatever failed on the way, and an item whose pid is
\* persisted when it is looked up is counted as synced: its lookup never
\* leads to an insert, and counts it as an error only by raising.
C27_StatsAddUp ==
    [][ \A c \in Callers :
            /\ calls'[c].pc = "done" =>
                  calls'[c].synced_count + calls'[c].skipped_count
                      + calls'[c].error_count = Len(calls'[c].eligible)
            /\ (AtPersistedItem(c) /\ calls'[c] # calls[c]) =>
                  /\ calls'[c].pc # "insert"
                  /\ calls'[c].synced_count + calls'[c].error_count
                         = calls[c].synced_count + calls[c].error_count + 1
                  /\ ENABLED (/\ Bulk_Item(c)
                              /\ calls'[c].synced_count
                                     = calls[c].synced_count + 1)
      ]_vars

\* Both requests have returned, neither a dry run, each counted an item as
\* synced and none as an error, and one insert was made: the other request
\* counted the persisted pid.
C27_Witness ==
    /\ nextUuid = 2
    /\ Len(documents) = 1
    /\ \A c \in Callers :
          /\ calls[c].pc = "done"
          /\ ~calls[c].dry_run
          /\ calls[c].synced_count = 1
          /\ calls[c].error_count = 0

(***************************************************************************)
(* Scripts run at the same time (SpecRace).                                *)
(***************************************************************************)
RowsOfPid(pid) == { i \in DOMAIN documents : documents[i].pid = pid }
BatchPidsOf(o) ==
    { scripts[o].parent_records[k].pid :
        k \in DOMAIN scripts[o].parent_records }
CountedNew(pid) == { o \in Operators : pid \in SeqRange(scripts[o].inserted) }

\* C25: when the runs that met on a pid neither of them found persisted
\* have ended, the table holds at most one row of the pid, and when it
\* holds one, exactly one run has counted the pid as new and every other
\* has it among its updated or its failed records.
C25_OneRunCountsNew ==
    (\A o \in Operators : scripts[o].pc = "done") =>
        \A pid \in { p \in BatchPidsOf(1) :
                       \A o \in Operators : p \in BatchPidsOf(o) } :
            /\ Cardinality(RowsOfPid(pid)) <= 1
            /\ Cardinality(RowsOfPid(pid)) = 1 =>
                  /\ Cardinality(CountedNew(pid)) = 1
                  /\ \A o \in Operators \ CountedNew(pid) :
                        pid \in SeqRange(scripts[o].pids_processed)
                                   \cup SeqRange(scripts[o].pids_failed)

(***************************************************************************)
(* Properties of process_pdf (SpecPdf).                                    *)
(***************************************************************************)
\* C28: once a call of process_pdf has ended, no row it created is left
\* with processing_status 'processing' (the row is 'completed' or
\* 'failed'); a call for an asset without pid, or for an s3_key that is
\* persisted, ends without a new row.
C28_NeverLeftProcessing ==
    [][/\ pdf_call'.pc \in {"returned", "raised"} =>
             \A i \in DOMAIN documents' :
                 documents'[i].processing_status # "processing"
       /\ (pdf_call'.calls = pdf_call.calls + 1
              /\ (pdf_call'.pdf_info.pid = NoPid
                     \/ SelectS3Key(documents, pdf_call'.pdf_info.key) # {}))
            => documents' = documents]_vars

(***************************************************************************)
(* sync_authority: what the final commit persists and what it returns.     *)
(***************************************************************************)
\* The step in which sync_authority commits and returns synced_count.
AuthorityReturns ==
    /\ authority_run.pc = "loop"
    /\ authority_run'.pc \in {"fetch", "done"}

\* The row of the k-th item of the data is in the table after the step.
ItemPersisted(k) ==
    \E r \in database_authorities' :
        /\ r.authority_type =
               AUTHORITY_DEFINITIONS[authority_run.type].authority_type
        /\ r.authority_id = Str(authority_run.data[k].id)
        /\ r.label = authority_run.data[k].label

\* Every item whose own upsert was executed is persisted by the commit,
\* whatever happened to the other items.
ExecutedItemsPersisted ==
    \A k \in DOMAIN authority_run.data :
        (/\ authority_run.log[k] = "executed"
         /\ \A j \in DOMAIN authority_run.data :
               j > k => Str(authority_run.data[j].id)
                            # Str(authority_run.data[k].id))
            => ItemPersisted(k)

\* The count returned is the number of items the commit persisted.
CountIsPersisted ==
    authority_run'.returned = Cardinality(authority_run'.persisted)

\* An item with no value for its id field is skipped.
NoIdSkipped ==
    \A k \in DOMAIN authority_run.data :
        authority_run.data[k].id = Null => authority_run.log[k] = "skipped"

\* C29: when sync_authority returns, every item whose own upsert did not
\* fail has been persisted by the final commit even if the upsert of
\* another item failed, the synced_count it returns is the number of items
\* persisted, and every item with no value for its id field was skipped.
C29_FailureIsolated ==
    [][AuthorityReturns =>
          /\ ExecutedItemsPersisted
          /\ CountIsPersisted
          /\ NoIdSkipped]_vars

(***************************************************************************)
(* chunk_text: termination and the chunks returned.                        *)
(***************************************************************************)
\* An iteration of the loop of chunk_text, and its return.
ChunkIterates == chunk_call.pc = "loop" /\ chunk_call'.pc = "loop"
ChunkReturns == chunk_call.pc = "loop" /\ chunk_call'.pc = "returned"

\* The characters of the text the chunks hold.
ChunkPositions(chunks) ==
    UNION { { chunks[k][j] : j \in DOMAIN chunks[k] } : k \in DOMAIN chunks }

\* The chunks cover every character of the text.
CoversText(call) ==
    ChunkPositions(call.chunks) = { call.text[p] : p \in DOMAIN call.text }

\* Consecutive chunks are in the order of the text and overlap by overlap
\* characters: a chunk begins chunk_size - overlap characters after the
\* chunk before it.
OverlapInOrder(call) ==
    \A k \in 1 .. Len(call.chunks) - 1 :
        /\ call.chunks[k] # << >>
        /\ call.chunks[k + 1] # << >>
        /\ call.chunks[k + 1][1] =
               call.chunks[k][1] + call.chunk_size - call.overlap
        /\ call.chunks[k + 1][1] <= call.chunks[k][Len(call.chunks[k])] + 1

\* Each chunk is at most chunk_size characters long.
WithinChunkSize(call) ==
    \A k \in DOMAIN call.chunks : Len(call.chunks[k]) <= call.chunk_size

\* C30: for every non-empty text, chunk_size and overlap the loop of
\* chunk_text terminates (every iteration moves start forward, so the rest
\* of the text gets shorter), and the chunks returned cover every character
\* of the text in order, consecutive chunks overlapping by overlap
\* characters, each chunk at most chunk_size long.
C30_ChunkTextTerminatesAndCovers ==
    [][/\ ChunkIterates => chunk_call'.start > chunk_call.start
       /\ ChunkReturns =>
             /\ CoversText(chunk_call')
             /\ OverlapInOrder(chunk_call')
             /\ WithinChunkSize(chunk_call')]_vars

====
